---- MODULE Spec2Model ----
(***************************************************************************)
(* Model of rules/require-mut.js (createMutRule): the visitor callbacks of *)
(* the 'param' and 'var' rule variants, driven by a depth-first traversal  *)
(* of a program whose nodes are chosen step by step.                       *)
(*                                                                         *)
(* Identifier texts are sequences of one-character strings so that the     *)
(* prefix test works on the characters.  JavaScript null / undefined is    *)
(* the empty sequence Null (as falsy as the empty string it coincides      *)
(* with).                                                                  *)
(***************************************************************************)
EXTENDS Integers, Sequences, FiniteSets, TLC

\* ---------------------------------------------------------------- bounds
MaxFunctions == 2
MaxNodes == 2
MaxCalls == 1
MaxDeclarators == 1
MaxParams == 2
MaxArgs == 2
MaxChain == 2
MaxTextLen == 4
MaxEvents == 6
MaxRunFunctions == 1
MaxPairEvents == 5
MaxAccessDepth == 3
MaxDialectEvents == 4
MaxForwardEvents == 8
MaxNameLen == 5

\* ------------------------------------------------------------ texts used
Null == <<>>
nA == <<"a">>
nMutA == <<"m", "u", "t", "A">>
nV == <<"v">>
nF == <<"f">>
nH == <<"h">>
nP == <<"p">>
nMut == <<"M", "u", "t">>
nUser == <<"U", "s", "e", "r">>
nPush == <<"p", "u", "s", "h">>
nPop == <<"p", "o", "p">>
nShift == <<"s", "h", "i", "f", "t">>
nUnshift == <<"u", "n", "s", "h", "i", "f", "t">>
nSplice == <<"s", "p", "l", "i", "c", "e">>
nSort == <<"s", "o", "r", "t">>
nReverse == <<"r", "e", "v", "e", "r", "s", "e">>
nFill == <<"f", "i", "l", "l">>
nMap == <<"m", "a", "p">>

UpperCase ==
  {"A", "B", "C", "D", "E", "F", "G", "H", "I", "J", "K", "L", "M",
   "N", "O", "P", "Q", "R", "S", "T", "U", "V", "W", "X", "Y", "Z"}

SeqsUpTo(S, n) == UNION {[1..k -> S] : k \in 0..n}

\* --------------------------------------------------------- AST node shapes
Ident(n) == [type |-> "Identifier", name |-> n]
Member(o, p) == [type |-> "MemberExpression", object |-> o, property |-> p]
\* o[k]: a computed member access
Computed(o, k) ==
  [type |-> "MemberExpression", object |-> o, property |-> k,
   computed |-> TRUE]
ThisExpression == [type |-> "ThisExpression"]
StringLiteral == [type |-> "Literal"]
ObjectExpression == [type |-> "ObjectExpression"]
SpreadElement == [type |-> "SpreadElement"]
\* an absent child node (node.id of an anonymous function, a missing type
\* annotation): falsy in the source's truthiness tests
NoNode == [type |-> "None"]
ObjectPattern == [type |-> "ObjectPattern"]
\* parameters that are not simple identifiers, with the name they bind:
\* {n}, [n], ...n and n = {}
ObjectPatternOf(n) == [type |-> "ObjectPattern", properties |-> <<Ident(n)>>]
ArrayPatternOf(n) == [type |-> "ArrayPattern", elements |-> <<Ident(n)>>]
RestElement(n) == [type |-> "RestElement", argument |-> Ident(n)]
AssignmentPattern(n) == [type |-> "AssignmentPattern", left |-> Ident(n)]

\* the name a parameter of one of these shapes binds in the function body
BoundIn(param) ==
  CASE param.type = "Identifier" -> param.name
    [] param.type = "ObjectPattern" -> param.properties[1].name
    [] param.type = "ArrayPattern" -> param.elements[1].name
    [] param.type = "RestElement" -> param.argument.name
    [] param.type = "AssignmentPattern" -> param.left.name

\* x.name of an arbitrary node: only identifiers carry a name
NameOf(n) == IF n.type = "Identifier" THEN n.name ELSE Null

\* base.p, base.p.p, ... : a member chain of the given depth
RECURSIVE Chain(_, _)
Chain(base, depth) ==
  IF depth = 1 THEN Member(base, Ident(nP))
  ELSE Member(Chain(base, depth - 1), Ident(nP))

\* ------------------------------------------------- shared helper functions
\* a variant that takes map for a mutating method
MutatingMethodsWithMap ==
  {nPush, nPop, nShift, nUnshift, nSplice, nSort, nReverse, nFill, nMap}

MutatingMethods ==
  {nPush, nPop, nShift, nUnshift, nSplice, nSort, nReverse, nFill}

isMutatingOperation(node) ==
  \/ node.type = "AssignmentExpression"
  \/ node.type = "UpdateExpression"
  \/ /\ node.type = "CallExpression"
     /\ node.callee.type = "MemberExpression"
     /\ NameOf(node.callee.property) \in MutatingMethods

\* a variant that looks one access deep
objectNameOneLevel(memberExpression) ==
  IF memberExpression.object.type = "Identifier"
  THEN memberExpression.object.name
  ELSE Null

RECURSIVE getRootObjectName(_)
getRootObjectName(memberExpression) ==
  IF memberExpression.object.type = "MemberExpression"
  THEN getRootObjectName(memberExpression.object)
  ELSE IF memberExpression.object.type = "Identifier"
       THEN memberExpression.object.name
       ELSE Null

\* getRootObjectName(m) || m.object.name
RootOrObjectName(m) ==
  IF getRootObjectName(m) # Null THEN getRootObjectName(m)
  ELSE NameOf(m.object)

isParameterMutation(node, paramNames) ==
  IF node.type = "AssignmentExpression" /\ node.left.type = "MemberExpression"
  THEN RootOrObjectName(node.left) \in paramNames
  ELSE IF node.type = "UpdateExpression"
          /\ node.argument.type = "MemberExpression"
  THEN RootOrObjectName(node.argument) \in paramNames
  ELSE /\ node.type = "CallExpression"
       /\ node.callee.type = "MemberExpression"
       /\ node.callee.object.type = "Identifier"
       /\ node.callee.object.name \in paramNames
       /\ NameOf(node.callee.property) \in MutatingMethods

startsWithMut(text) ==
  /\ Len(text) >= 3
  /\ text[1] = "m"
  /\ text[2] = "u"
  /\ text[3] = "t"

\* a variant whose pattern is /^mut./: any character after the prefix
matchesMutAny(text) ==
  /\ Len(text) >= 4
  /\ text[1] = "m"
  /\ text[2] = "u"
  /\ text[3] = "t"

\* /^mut[A-Z]/.test(text)
matchesMutUpper(text) ==
  /\ Len(text) >= 4
  /\ text[1] = "m"
  /\ text[2] = "u"
  /\ text[3] = "t"
  /\ text[4] \in UpperCase

hasMutPrefix(paramName) ==
  startsWithMut(paramName) /\ Len(paramName) > 3 /\ matchesMutUpper(paramName)

\* param.typeAnnotation.typeAnnotation: NoNode when the annotation is absent
TypeRef(n) == [type |-> "TSTypeReference",
               typeName |-> [type |-> "Identifier", name |-> n]]
QualifiedMut == [type |-> "TSTypeReference",
                 typeName |-> [type |-> "TSQualifiedName"]]
ArrayType == [type |-> "TSArrayType"]

hasMutType(param) ==
  /\ param.typeAnnotation.type # "None"
  /\ param.typeAnnotation.type = "TSTypeReference"
  /\ NameOf(param.typeAnnotation.typeName) = nMut

hasMutTypeAnnotation(node) ==
  /\ node.id.type # "None"
  /\ node.id.typeAnnotation.type # "None"
  /\ node.id.typeAnnotation.type = "TSTypeReference"
  /\ node.id.typeAnnotation.typeName.type = "Identifier"
  /\ node.id.typeAnnotation.typeName.name = nMut

\* a variant in which the prefix also passes in typed sources
isValidMutableParamOrPrefix(ts, param) ==
  IF ts THEN hasMutType(param) \/ hasMutPrefix(param.name)
  ELSE hasMutPrefix(param.name)

isValidMutableParam(ts, param) ==
  IF ts THEN hasMutType(param) ELSE hasMutPrefix(param.name)

\* a variant that knows the prefix only
hasMutPrefixOnly(ts, mutVars, argument) == hasMutPrefix(argument.name)

hasValidMutableMarker(ts, mutVars, argument) ==
  IF ts THEN argument.name \in mutVars \/ hasMutPrefix(argument.name)
  ELSE hasMutPrefix(argument.name)

ToUpperCase(c) ==
  CASE c = "a" -> "A" [] c = "f" -> "F" [] c = "m" -> "M"
    [] c = "t" -> "T" [] c = "u" -> "U" [] c = "v" -> "V"
    [] OTHER -> c

\* 'mut' + name.charAt(0).toUpperCase() + name.slice(1)
SuggestedName(name) ==
  IF name = <<>> THEN <<"m", "u", "t">>
  ELSE <<"m", "u", "t", ToUpperCase(Head(name))>> \o Tail(name)

getErrorMessage(rt, ts, paramName, functionName) ==
  IF rt = "param"
  THEN IF ts
       THEN [template |-> "param-ts", name |-> paramName,
             function |-> Null, suggestion |-> Null]
       ELSE [template |-> "param-js", name |-> paramName,
             function |-> Null, suggestion |-> SuggestedName(paramName)]
  ELSE IF ts
       THEN [template |-> "arg-ts", name |-> paramName,
             function |-> functionName,
             suggestion |-> SuggestedName(paramName)]
       ELSE [template |-> "arg-js", name |-> paramName,
             function |-> functionName,
             suggestion |-> SuggestedName(paramName)]

\* String.prototype.endsWith
endsWith(s, suffix) ==
  /\ Len(s) >= Len(suffix)
  /\ SubSeq(s, Len(s) - Len(suffix) + 1, Len(s)) = suffix

\* a variant that looks at the '.ts' ending only
endsWithTsOnly(name) == endsWith(name, <<".", "t", "s">>)

\* filename.endsWith('.ts') || filename.endsWith('.tsx')
isTypeScriptFile(name) ==
  endsWith(name, <<".", "t", "s">>) \/ endsWith(name, <<".", "t", "s", "x">>)

jsFile == <<"a", ".", "j", "s">>
tsFile == <<"a", ".", "t", "s">>
SourceFiles == {jsFile, tsFile}

\* ------------------------------------------------------------------ state
VARIABLES
  ruleType,                    \* createMutRule(ruleType)
  isTypeScript,                \* fixed in create() from the file name
  functionScopes,              \* Map: open function node -> {params, mutatedParams}
  functionsWithMutatingParams, \* Map: function name -> mutated positions
  functionCalls,               \* array of {node, functionName, arguments}
  mutTypeVariables,            \* Set of names declared with Mut<T>
  reports,                     \* context.report calls, in order
  stack,                       \* open function nodes, outermost first
  pending,                     \* declarator whose init function is entered next
  done,                        \* Program:exit has happened
  fnCount,                     \* function nodes entered so far
  nodeCount,                   \* assignment / update / call nodes visited
  declCount,                   \* variable declarators visited
  bodyTargets,                 \* open function -> names its body has targeted
  lastExit,                    \* the function left by the latest exit step
  declared,                    \* bound name -> the mutating functions left
  callsMet,                    \* every call expression met, in order
  text,                        \* identifier text given to hasMutPrefix
  verdict,                     \* result of hasMutPrefix(text)
  probe,                       \* a node and a parameter record given to the
                               \* classifier
  recorded,                    \* the names the classifier recorded for probe
  filename,                    \* context.getFilename()
  suite,                       \* which programs the invocations below traverse
  programs,                    \* invocation of create() -> the events its
                               \* visitors have been handed, in order
  stores,                      \* closure of create() -> the four collections
  output                       \* invocation -> its context.report calls

vars ==
  <<ruleType, isTypeScript, functionScopes, functionsWithMutatingParams,
    functionCalls, mutTypeVariables, reports, stack, pending, done, fnCount,
    nodeCount, declCount, bodyTargets, lastExit, declared, callsMet, text,
    verdict, probe, recorded, filename, suite, programs, stores, output>>

\* the variables of the invocations followed event by event
runVars == <<filename, suite, programs, stores, output>>

\* the variables of the helper specifications
probeVars == <<text, verdict, probe, recorded>>

\* the variables no visitor of the single traversal writes
pureVars ==
  <<text, verdict, probe, recorded, filename, suite, programs, stores,
    output>>

\* the variables of a traversal
ruleVars ==
  <<ruleType, isTypeScript, functionScopes, functionsWithMutatingParams,
    functionCalls, mutTypeVariables, reports, stack, pending, done, fnCount,
    nodeCount, declCount, bodyTargets, lastExit, declared, callsMet>>

\* ----------------------------------------------------- programs traversed
\* The nodes a traversal can meet.  The parameter rule never reads a call's
\* callee name or arguments nor how a function is bound, the variable rule
\* never reads a parameter's marker, and the dialect is read only where a
\* marker is tested, so each variant is explored over the node shapes its
\* handlers distinguish: the ways of binding a function in untyped sources,
\* the annotated declarators in typed ones.
ParamNames == {nA, nMutA}

ParamNodes(rt, ts) ==
  IF rt = "param" /\ ts
  THEN {[type |-> "Identifier", name |-> nA, typeAnnotation |-> NoNode],
        [type |-> "Identifier", name |-> nA, typeAnnotation |-> TypeRef(nMut)],
        [type |-> "Identifier", name |-> nMutA,
         typeAnnotation |-> TypeRef(nUser)],
        ObjectPattern}
  ELSE {[type |-> "Identifier", name |-> n, typeAnnotation |-> NoNode] :
          n \in ParamNames}
       \cup (IF rt = "param" THEN {ObjectPattern} ELSE {})

\* parameter lists: no two simple-identifier parameters share a name
ParamLists(rt, ts) ==
  {ps \in SeqsUpTo(ParamNodes(rt, ts), MaxParams) :
     \A i, j \in 1..Len(ps) :
       (i # j /\ ps[i].type = "Identifier" /\ ps[j].type = "Identifier")
         => ps[i].name # ps[j].name}

OtherParent == [type |-> "Other"]

\* function-like nodes that can stand at the current place: the init of the
\* declarator just visited, or a declaration / expression elsewhere
FunctionShapes(rt, ts, pend) ==
  IF pend.type = "VariableDeclarator"
  THEN {[type |-> pend.init, id |-> i, parent |-> pend] :
          i \in (IF pend.init = "FunctionExpression" /\ rt = "var"
                 THEN {NoNode, Ident(nF)} ELSE {NoNode})}
  ELSE IF rt = "var" /\ ~ts
  THEN {[type |-> "FunctionDeclaration", id |-> Ident(nF),
         parent |-> OtherParent],
        [type |-> "ArrowFunctionExpression", id |-> NoNode,
         parent |-> OtherParent]}
  ELSE {[type |-> "FunctionDeclaration", id |-> Ident(nF),
         parent |-> OtherParent]}

\* const h = <function>, and in typed sources const a: <type> = <value>
Declarators(rt, ts) ==
  {[type |-> "VariableDeclarator",
    id |-> [type |-> "Identifier", name |-> nH, typeAnnotation |-> NoNode],
    init |-> k] :
     k \in (IF rt = "var"
            THEN (IF ts THEN {}
                  ELSE {"FunctionExpression", "ArrowFunctionExpression"})
            ELSE {"Other", "ArrowFunctionExpression"})}
  \cup (IF rt = "var" /\ ts
        THEN {[type |-> "VariableDeclarator", id |-> i, init |-> "Other"] :
                i \in {[type |-> "Identifier", name |-> nA,
                        typeAnnotation |-> t] :
                         t \in {TypeRef(nMut), TypeRef(nUser), QualifiedMut}}
                      \cup {[type |-> "ObjectPattern",
                             typeAnnotation |-> TypeRef(nMut)]}}
        ELSE {})
  \cup (IF rt = "var" /\ ~ts
        THEN {[type |-> "VariableDeclarator",
               id |-> [type |-> "ObjectPattern", typeAnnotation |-> NoNode],
               init |-> "ArrowFunctionExpression"]}
        ELSE {})

Assignment(t) == [type |-> "AssignmentExpression", left |-> t]
Update(t) == [type |-> "UpdateExpression", argument |-> t]
Call(c, as) == [type |-> "CallExpression", callee |-> c, arguments |-> as]

\* x.p = v, x.p.p++, x = v, x.push() and the like
MutationNodes(rt) ==
  IF rt = "param"
  THEN {Assignment(Chain(Ident(nA), 1)), Assignment(Chain(Ident(nMutA), 1)),
        Assignment(Chain(Ident(nV), 1)), Assignment(Ident(nA)),
        Update(Chain(Ident(nA), MaxChain)),
        Call(Member(Ident(nA), Ident(nPush)), <<>>),
        Call(Member(Ident(nA), Ident(nMap)), <<>>),
        Call(Member(Chain(Ident(nA), 1), Ident(nPush)), <<>>),
        Call(Member(Ident(nMutA), Ident(nSort)), <<>>),
        Call(Ident(nF), <<Ident(nA)>>)}
  ELSE {Assignment(Chain(Ident(nA), 1)), Assignment(Chain(Ident(nMutA), 1)),
        Call(Member(Ident(nMutA), Ident(nPush)), <<>>)}

ArgumentNodes == {Ident(nA), Ident(nMutA), ObjectExpression}

ArgumentLists == SeqsUpTo(ArgumentNodes, MaxArgs)

\* f(...), h(x), v.f(x), f(<one non-identifier argument>) and a call
\* whose callee has no name
FunctionCallNodes(rt, ts) ==
  IF rt = "var" /\ ts
  THEN {Call(Ident(nF), as) : as \in ArgumentLists}
  ELSE IF rt = "var"
  THEN {Call(Ident(nF), as) : as \in ArgumentLists}
       \cup {Call(c, <<x>>) :
               c \in {Ident(nH), Member(Ident(nV), Ident(nF))},
               x \in {Ident(nA), Ident(nMutA)}}
       \cup {Call(Ident(nF), <<x>>) :
               x \in {SpreadElement, StringLiteral, Chain(Ident(nA), 1),
                      Call(Ident(nH), <<>>)}}
       \cup {Call(Call(Ident(nH), <<>>), <<Ident(nA)>>)}
  ELSE {}

VisitNodes(rt, ts) == MutationNodes(rt) \cup FunctionCallNodes(rt, ts)

\* ------------------------------------------------------------- utilities
NoExit == [uid |-> 0]

MapSet(m, k, v) == [x \in DOMAIN m \cup {k} |-> IF x = k THEN v ELSE m[x]]
\* a variant that leaves the entry in place
MapKeep(m, k) == m

MapDelete(m, k) == [x \in DOMAIN m \ {k} |-> m[x]]
EmptyMap == [x \in {} |-> x]

\* a variant that pushes onto an array instead of adding to a Set
ArrayPush(s, x) == Append(s, x)

\* Set.add on an insertion-ordered Set
SetAdd(s, x) == IF \E i \in 1..Len(s) : s[i] = x THEN s ELSE Append(s, x)
Has(s, x) == \E i \in 1..Len(s) : s[i] = x

RECURSIVE Flatten(_)
Flatten(ss) == IF ss = <<>> THEN <<>> ELSE Head(ss) \o Flatten(Tail(ss))

\* ------------------------------------------- what the program text says
\* The operations the rule is meant to see as a mutation of the name x:
\* x.prop = v and x.prop++ through a member chain rooted at x, and x.m()
\* with m one of the eight mutating methods.
EightMethods ==
  {<<"p", "u", "s", "h">>, <<"p", "o", "p">>, <<"s", "h", "i", "f", "t">>,
   <<"u", "n", "s", "h", "i", "f", "t">>, <<"s", "p", "l", "i", "c", "e">>,
   <<"s", "o", "r", "t">>, <<"r", "e", "v", "e", "r", "s", "e">>,
   <<"f", "i", "l", "l">>}

RECURSIVE LeftMostBase(_)
LeftMostBase(e) ==
  IF e.type = "MemberExpression" THEN LeftMostBase(e.object) ELSE e

CallTargets(node, x) ==
  /\ node.type = "CallExpression"
  /\ node.callee.type = "MemberExpression"
  /\ node.callee.object = Ident(x)
  /\ node.callee.property.type = "Identifier"
  /\ node.callee.property.name \in EightMethods

WriteTargets(node, x) ==
  \/ /\ node.type = "AssignmentExpression"
     /\ node.left.type = "MemberExpression"
     /\ LeftMostBase(node.left) = Ident(x)
  \/ /\ node.type = "UpdateExpression"
     /\ node.argument.type = "MemberExpression"
     /\ LeftMostBase(node.argument) = Ident(x)

Targets(node, x) == WriteTargets(node, x) \/ CallTargets(node, x)

Declares(fn, x) ==
  \E i \in 1..Len(fn.params) :
    fn.params[i].type = "Identifier" /\ fn.params[i].name = x

\* For the open function at stack position i and a node met now: the names
\* the node targets with no function between that one and the node
\* declaring the name (free), those among them met inside a nested function
\* (nested), the names it targets below a nested function that declares
\* the name itself (shadowed), and the number of nodes targeting each name
\* (sites).
TargetNames == {nA, nMutA, nV}

NoTargets ==
  [free |-> {}, nested |-> {}, shadowed |-> {},
   sites |-> [x \in TargetNames |-> 0]]

Redeclared(i, x) == \E j \in (i + 1)..Len(stack) : Declares(stack[j], x)

AddTargets(t, i, node) ==
  LET hit == {x \in TargetNames : Targets(node, x)}
  IN [free |-> t.free \cup {x \in hit : ~Redeclared(i, x)},
      nested |-> t.nested
                   \cup {x \in hit : ~Redeclared(i, x) /\ i < Len(stack)},
      shadowed |-> t.shadowed \cup {x \in hit : Redeclared(i, x)},
      sites |-> [x \in TargetNames |->
                   IF x \in hit THEN t.sites[x] + 1 ELSE t.sites[x]]]

\* the declared positions (zero-based) of the parameters named in targets
TargetedPositions(params, targets) ==
  {i - 1 : i \in {j \in 1..Len(params) :
                     /\ params[j].type = "Identifier"
                     /\ params[j].name \in targets}}

\* -------------------------------------------------------------- visitors

\* 'VariableDeclarator'(node)
VariableDeclarator(node) ==
  /\ ~done /\ pending.type = "None"
  /\ declCount < MaxDeclarators
  /\ mutTypeVariables' =
       IF ruleType = "var" /\ isTypeScript /\ hasMutTypeAnnotation(node)
          /\ node.id.type = "Identifier"
       THEN mutTypeVariables \cup {node.id.name}
       ELSE mutTypeVariables
  /\ pending' = IF node.init = "Other" THEN NoNode ELSE node
  /\ declCount' = declCount + 1
  /\ UNCHANGED <<ruleType, isTypeScript, functionScopes,
                 functionsWithMutatingParams, functionCalls, reports, stack,
                 done, fnCount, nodeCount, bodyTargets, lastExit, declared,
                 callsMet>>
  /\ UNCHANGED pureVars

\* a variant that also enters the names bound by patterns, defaults and
\* rest elements
CollectBoundNames(rt, ts, params) ==
  LET names == {BoundIn(params[i]) : i \in 1..Len(params)}
      last(n) == CHOOSE i \in 1..Len(params) :
                   /\ BoundIn(params[i]) = n
                   /\ \A j \in (i + 1)..Len(params) : BoundIn(params[j]) # n
  IN [n \in names |->
        [node |-> last(n) - 1,
         isValidMutable |->
           IF rt # "param" THEN FALSE
           ELSE IF params[last(n)].type = "Identifier"
                THEN isValidMutableParam(ts, params[last(n)])
                ELSE hasMutPrefix(n)]]

\* params Map built by node.params.forEach: a later entry of the same name
\* replaces the earlier one
CollectParams(rt, ts, params) ==
  LET names == {params[i].name :
                  i \in {j \in 1..Len(params) : params[j].type = "Identifier"}}
      last(n) == CHOOSE i \in 1..Len(params) :
                   /\ params[i].type = "Identifier" /\ params[i].name = n
                   /\ \A j \in (i + 1)..Len(params) :
                        ~(params[j].type = "Identifier" /\ params[j].name = n)
  IN [n \in names |->
        [node |-> last(n) - 1,
         isValidMutable |-> IF rt = "param"
                            THEN isValidMutableParam(ts, params[last(n)])
                            ELSE FALSE]]

\* 'FunctionDeclaration, FunctionExpression, ArrowFunctionExpression'(node)
EnterFunction(shape, params) ==
  /\ ~done
  /\ fnCount < MaxFunctions
  /\ LET node == [uid |-> fnCount + 1, type |-> shape.type, id |-> shape.id,
                  parent |-> shape.parent, params |-> params]
     IN /\ functionScopes' =
             MapSet(functionScopes, node.uid,
                    [params |-> CollectParams(ruleType, isTypeScript, params),
                     mutatedParams |-> <<>>])
        /\ stack' = Append(stack, node)
  /\ fnCount' = fnCount + 1
  /\ pending' = NoNode
  /\ bodyTargets' = MapSet(bodyTargets, fnCount + 1, NoTargets)
  /\ UNCHANGED <<ruleType, isTypeScript, functionsWithMutatingParams,
                 functionCalls, mutTypeVariables, reports, done, nodeCount,
                 declCount, lastExit, declared, callsMet>>
  /\ UNCHANGED pureVars

\* a variant that stores the calls under either rule
checkCallsUnderEitherRule(rt, calls, node, uid) ==
  IF node.type = "CallExpression" /\ node.callee.type = "Identifier"
  THEN Append(calls, [node |-> uid, functionName |-> node.callee.name,
                      arguments |-> node.arguments])
  ELSE calls

\* a variant that stores direct calls only
checkDirectCallsOnly(rt, calls, node, uid) ==
  IF rt = "var" /\ node.type = "CallExpression"
     /\ node.callee.type = "Identifier"
  THEN Append(calls, [node |-> uid, functionName |-> node.callee.name,
                      arguments |-> node.arguments])
  ELSE calls

\* a variant that stores a call only when its callee already has a profile
checkKnownFunctionsOnly(rt, calls, node, uid) ==
  IF rt = "var" /\ node.type = "CallExpression"
  THEN LET functionName ==
             IF node.callee.type = "Identifier" THEN node.callee.name
             ELSE IF node.callee.type = "MemberExpression"
                     /\ node.callee.property.type = "Identifier"
                  THEN node.callee.property.name
                  ELSE Null
       IN IF functionName # Null
             /\ functionName \in DOMAIN functionsWithMutatingParams
          THEN Append(calls, [node |-> uid, functionName |-> functionName,
                              arguments |-> node.arguments])
          ELSE calls
  ELSE calls

checkCrossFunctionMutation(rt, calls, node, uid) ==
  IF rt = "var" /\ node.type = "CallExpression"
  THEN LET functionName ==
             IF node.callee.type = "Identifier" THEN node.callee.name
             ELSE IF node.callee.type = "MemberExpression"
                     /\ node.callee.property.type = "Identifier"
                  THEN node.callee.property.name
                  ELSE Null
       IN IF functionName # Null
          THEN Append(calls, [node |-> uid, functionName |-> functionName,
                              arguments |-> node.arguments])
          ELSE calls
  ELSE calls

\* lines 218-226: the name the visitor adds to a scope
mutatedParamName(node) ==
  IF node.type = "AssignmentExpression" /\ node.left.type = "MemberExpression"
  THEN RootOrObjectName(node.left)
  ELSE IF node.type = "UpdateExpression"
          /\ node.argument.type = "MemberExpression"
  THEN RootOrObjectName(node.argument)
  ELSE IF node.type = "CallExpression"
          /\ node.callee.type = "MemberExpression"
  THEN NameOf(node.callee.object)
  ELSE Null

\* a variant that also records a parameter handed to a direct call
RecordMutationOrForward(scope, node) ==
  IF /\ isMutatingOperation(node)
     /\ isParameterMutation(node, DOMAIN scope.params)
     /\ mutatedParamName(node) \in DOMAIN scope.params
  THEN [scope EXCEPT !.mutatedParams = SetAdd(@, mutatedParamName(node))]
  ELSE IF /\ node.type = "CallExpression"
          /\ node.callee.type = "Identifier"
          /\ node.arguments # <<>>
          /\ node.arguments[1].type = "Identifier"
          /\ node.arguments[1].name \in DOMAIN scope.params
       THEN [scope EXCEPT !.mutatedParams =
               SetAdd(@, node.arguments[1].name)]
       ELSE scope

\* a variant that records the root name whether or not it is a parameter
RecordMutationAnyName(scope, node) ==
  IF isMutatingOperation(node) /\ mutatedParamName(node) # Null
  THEN [scope EXCEPT !.mutatedParams = SetAdd(@, mutatedParamName(node))]
  ELSE scope

\* a variant that charges a write with no resolvable root to a parameter
RecordMutationUnresolved(scope, node) ==
  IF /\ isMutatingOperation(node)
     /\ mutatedParamName(node) = Null
     /\ DOMAIN scope.params # {}
  THEN [scope EXCEPT !.mutatedParams =
          SetAdd(@, CHOOSE x \in DOMAIN scope.params : TRUE)]
  ELSE IF /\ isMutatingOperation(node)
          /\ isParameterMutation(node, DOMAIN scope.params)
          /\ mutatedParamName(node) \in DOMAIN scope.params
       THEN [scope EXCEPT !.mutatedParams = SetAdd(@, mutatedParamName(node))]
       ELSE scope

\* the visitor reads a property of a child node that is not there: a
\* TypeError in the source
dereferencesAbsent(node) ==
  \/ /\ node.type = "CallExpression"
     /\ \/ "callee" \notin DOMAIN node
        \/ /\ node.callee.type = "MemberExpression"
           /\ \/ "property" \notin DOMAIN node.callee
              \/ "object" \notin DOMAIN node.callee
  \/ /\ node.type = "AssignmentExpression"
     /\ \/ "left" \notin DOMAIN node
        \/ /\ node.left.type = "MemberExpression"
           /\ "object" \notin DOMAIN node.left
  \/ /\ node.type = "UpdateExpression"
     /\ \/ "argument" \notin DOMAIN node
        \/ /\ node.argument.type = "MemberExpression"
           /\ "object" \notin DOMAIN node.argument

\* body of the loop over containingFunctions for one function
RecordMutation(scope, node) ==
  IF /\ isMutatingOperation(node)
     /\ isParameterMutation(node, DOMAIN scope.params)
     /\ mutatedParamName(node) # Null
     /\ mutatedParamName(node) \in DOMAIN scope.params
  THEN [scope EXCEPT !.mutatedParams = SetAdd(@, mutatedParamName(node))]
  ELSE scope

\* a variant that stops at the nearest enclosing function
nearestFunction ==
  IF stack = <<>> THEN {} ELSE {stack[Len(stack)].uid}

\* the enclosing functions found by walking node.parent
containingFunctions == {stack[i].uid : i \in 1..Len(stack)}

StackIndex(uid) == CHOOSE i \in 1..Len(stack) : stack[i].uid = uid

\* 'AssignmentExpression, UpdateExpression, CallExpression'(node)
Visit(node) ==
  /\ ~done /\ pending.type = "None"
  /\ nodeCount < MaxNodes
  /\ Len(checkCrossFunctionMutation(ruleType, functionCalls, node,
                                    nodeCount + 1)) <= MaxCalls
  /\ functionCalls' =
       checkCrossFunctionMutation(ruleType, functionCalls, node, nodeCount + 1)
  /\ functionScopes' =
       [f \in DOMAIN functionScopes |->
          IF f \in containingFunctions
          THEN RecordMutation(functionScopes[f], node)
          ELSE functionScopes[f]]
  /\ nodeCount' = nodeCount + 1
  /\ bodyTargets' =
       [f \in DOMAIN bodyTargets |->
          AddTargets(bodyTargets[f], StackIndex(f), node)]
  /\ callsMet' = IF ruleType = "var" /\ node.type = "CallExpression"
                  THEN Append(callsMet, [node |-> nodeCount + 1,
                                         callee |-> node.callee,
                                         arguments |-> node.arguments])
                  ELSE callsMet
  /\ UNCHANGED <<ruleType, isTypeScript, functionsWithMutatingParams,
                 mutTypeVariables, reports, stack, pending, done, fnCount,
                 declCount, lastExit, declared>>
  /\ UNCHANGED pureVars

\* a variant that names function expressions the way it names arrows
profileNameByVariable(node) ==
  IF node.type = "FunctionDeclaration" /\ node.id.type # "None"
  THEN node.id.name
  ELSE IF /\ node.type \in {"FunctionExpression", "ArrowFunctionExpression"}
          /\ node.parent.type = "VariableDeclarator"
          /\ node.parent.id.type = "Identifier"
  THEN node.parent.id.name
  ELSE Null

\* lines 255-269: the name a profile is recorded under
profileName(node) ==
  IF node.type = "FunctionDeclaration" /\ node.id.type # "None"
  THEN node.id.name
  ELSE IF node.type = "FunctionExpression" /\ node.id.type # "None"
  THEN node.id.name
  ELSE IF /\ node.type = "ArrowFunctionExpression"
          /\ node.parent.type = "VariableDeclarator"
          /\ node.parent.id.type = "Identifier"
  THEN node.parent.id.name
  ELSE Null

\* a variant that counts positions among the simple-identifier parameters
indicesAmongIdentifiers(node, scope) ==
  LET identifiers == SelectSeq(node.params,
                               LAMBDA p : p.type = "Identifier")
      positions == [i \in 1..Len(identifiers) |-> i - 1]
      mutated(p) == Has(scope.mutatedParams, identifiers[p + 1].name)
  IN SelectSeq(positions, mutated)

\* a variant that lists the positions of the mut-prefixed parameters
mutPrefixedIndices(node, scope) ==
  LET positions == [i \in 1..Len(node.params) |-> i - 1]
      prefixed(p) == /\ node.params[p + 1].type = "Identifier"
                     /\ hasMutPrefix(node.params[p + 1].name)
  IN SelectSeq(positions, prefixed)

\* a variant that lists the positions in the order of the mutations
indicesInMutationOrder(node, scope) ==
  LET place(name) ==
        CHOOSE i \in 1..Len(node.params) :
          node.params[i].type = "Identifier" /\ node.params[i].name = name
  IN [m \in 1..Len(scope.mutatedParams) |-> place(scope.mutatedParams[m]) - 1]

\* lines 272-277: zero-based positions of the mutated parameters, ascending
mutatingParamIndices(node, scope) ==
  LET positions == [i \in 1..Len(node.params) |-> i - 1]
      mutated(p) == /\ node.params[p + 1].type = "Identifier"
                    /\ Has(scope.mutatedParams, node.params[p + 1].name)
  IN SelectSeq(positions, mutated)

\* a variant that reports every unmarked parameter, mutated or not
ParamReportsAllUnmarked(rt, ts, node, scope) ==
  IF rt = "param"
  THEN LET positions == [i \in 1..Len(node.params) |-> i]
           unmarked(i) ==
             /\ node.params[i].type = "Identifier"
             /\ ~scope.params[node.params[i].name].isValidMutable
           offending == SelectSeq(positions, unmarked)
       IN [k \in 1..Len(offending) |->
             [node |-> [owner |-> node.uid, index |-> offending[k] - 1],
              message |-> getErrorMessage(rt, ts,
                            node.params[offending[k]].name, Null)]]
  ELSE <<>>

\* a variant that reports the mutated parameters in declaration order
ParamReportsAsDeclared(rt, ts, node, scope) ==
  IF rt = "param"
  THEN LET positions == [i \in 1..Len(node.params) |-> i]
           offending(i) ==
             /\ node.params[i].type = "Identifier"
             /\ Has(scope.mutatedParams, node.params[i].name)
             /\ ~scope.params[node.params[i].name].isValidMutable
           found == SelectSeq(positions, offending)
       IN [k \in 1..Len(found) |->
             [node |-> [owner |-> node.uid, index |-> found[k] - 1],
              message |-> getErrorMessage(rt, ts, node.params[found[k]].name,
                                          Null)]]
  ELSE <<>>

\* lines 241-251: the parameter rule's reports at a function exit
ParamReports(rt, ts, node, scope) ==
  IF rt = "param"
  THEN LET unmarked(n) == ~scope.params[n].isValidMutable
           offending == SelectSeq(scope.mutatedParams, unmarked)
       IN [k \in 1..Len(offending) |->
             [node |-> [owner |-> node.uid,
                        index |-> scope.params[offending[k]].node],
              message |-> getErrorMessage(rt, ts, offending[k], Null)]]
  ELSE <<>>

\* a variant that keeps the first profile recorded under a name
RecordFirstProfile(rt, table, node, scope) ==
  IF /\ rt = "var" /\ Len(scope.mutatedParams) > 0
     /\ profileName(node) # Null
     /\ Len(mutatingParamIndices(node, scope)) > 0
     /\ profileName(node) \notin DOMAIN table
  THEN MapSet(table, profileName(node), mutatingParamIndices(node, scope))
  ELSE table

\* a variant in which a function that mutates nothing clears the profile
\* recorded under its name
RecordOrClearProfile(rt, table, node, scope) ==
  IF /\ rt = "var" /\ Len(scope.mutatedParams) > 0
     /\ profileName(node) # Null
     /\ Len(mutatingParamIndices(node, scope)) > 0
  THEN MapSet(table, profileName(node), mutatingParamIndices(node, scope))
  ELSE IF rt = "var" /\ profileName(node) # Null
       THEN MapDelete(table, profileName(node))
       ELSE table

\* lines 253-283: the profile table after a function exit
RecordProfile(rt, table, node, scope) ==
  IF /\ rt = "var" /\ Len(scope.mutatedParams) > 0
     /\ profileName(node) # Null
     /\ Len(mutatingParamIndices(node, scope)) > 0
  THEN MapSet(table, profileName(node), mutatingParamIndices(node, scope))
  ELSE table

\* the name a function is callable by: a function declaration's or a named
\* function expression's own identifier, and for an arrow function the
\* variable whose declarator it initialises
BoundName(node) ==
  IF node.type \in {"FunctionDeclaration", "FunctionExpression"}
  THEN (IF node.id.type = "Identifier" THEN node.id.name ELSE Null)
  ELSE IF node.parent.type = "VariableDeclarator"
          /\ node.parent.id.type = "Identifier"
       THEN node.parent.id.name
       ELSE Null

\* the positions whose parameter the body of the function targets
BodyPositions(node, targets) ==
  TargetedPositions(node.params, targets.free \cup targets.shadowed)

\* what the text says about the function being left: for the parameter
\* rule its parameters and the names its body targets, for the variable
\* rule how it is bound and the positions its body targets
ExitSummary(rt, node, targets) ==
  IF rt = "param"
  THEN [uid |-> node.uid, params |-> node.params, targets |-> targets]
  ELSE [uid |-> node.uid, type |-> node.type, id |-> node.id,
        parent |-> node.parent, positions |-> BodyPositions(node, targets)]

\* per bound name, of the functions left so far that target a parameter:
\* the position sets of all of them, the positions of the latest one, and
\* the number of call expressions met before the latest one was left
Declare(table, node, targets) ==
  IF BoundName(node) # Null /\ BodyPositions(node, targets) # {}
  THEN MapSet(table, BoundName(node),
              [all |-> (IF BoundName(node) \in DOMAIN table
                        THEN table[BoundName(node)].all ELSE {})
                         \cup {BodyPositions(node, targets)},
               last |-> BodyPositions(node, targets),
               callsBefore |-> Len(callsMet)])
  ELSE table

\* 'FunctionDeclaration, FunctionExpression, ArrowFunctionExpression:exit'
ExitFunction ==
  /\ ~done /\ pending.type = "None"
  /\ Len(stack) > 0
  /\ LET node == stack[Len(stack)]
     IN /\ IF node.uid \in DOMAIN functionScopes
           THEN LET scope == functionScopes[node.uid]
                IN /\ reports' = reports
                        \o ParamReports(ruleType, isTypeScript, node, scope)
                   /\ functionsWithMutatingParams' =
                        RecordProfile(ruleType, functionsWithMutatingParams,
                                      node, scope)
                   /\ functionScopes' = MapDelete(functionScopes, node.uid)
           ELSE UNCHANGED <<reports, functionsWithMutatingParams,
                            functionScopes>>
        /\ lastExit' = ExitSummary(ruleType, node, bodyTargets[node.uid])
        /\ declared' = IF ruleType = "var"
                       THEN Declare(declared, node, bodyTargets[node.uid])
                       ELSE declared
        /\ bodyTargets' = MapDelete(bodyTargets, node.uid)
  /\ stack' = SubSeq(stack, 1, Len(stack) - 1)
  /\ UNCHANGED <<ruleType, isTypeScript, functionCalls, mutTypeVariables,
                 pending, done, fnCount, nodeCount, declCount, callsMet>>
  /\ UNCHANGED pureVars

\* a variant without the test that the argument is a simple identifier
CallReportsAnyArgument(rt, ts, mutVars, table, call) ==
  IF call.functionName \in DOMAIN table
  THEN LET mutParamIndices == table[call.functionName]
           offending(paramIndex) ==
             /\ paramIndex < Len(call.arguments)
             /\ ~hasValidMutableMarker(ts, mutVars,
                   [name |-> NameOf(call.arguments[paramIndex + 1])])
           found == SelectSeq(mutParamIndices, offending)
       IN [k \in 1..Len(found) |->
             [node |-> [owner |-> call.node, index |-> found[k]],
              message |-> getErrorMessage(rt, ts,
                            NameOf(call.arguments[found[k] + 1]),
                            call.functionName)]]
  ELSE <<>>

\* lines 299-313: the reports of one recorded call
CallReports(rt, ts, mutVars, table, call) ==
  IF call.functionName \in DOMAIN table
  THEN LET mutParamIndices == table[call.functionName]
           offending(paramIndex) ==
             /\ paramIndex < Len(call.arguments)
             /\ call.arguments[paramIndex + 1].type = "Identifier"
             /\ ~hasValidMutableMarker(ts, mutVars,
                                       call.arguments[paramIndex + 1])
           found == SelectSeq(mutParamIndices, offending)
       IN [k \in 1..Len(found) |->
             [node |-> [owner |-> call.node, index |-> found[k]],
              message |-> getErrorMessage(rt, ts,
                            call.arguments[found[k] + 1].name,
                            call.functionName)]]
  ELSE <<>>

\* 'Program:exit', registered for the variable rule only
ProgramExit ==
  /\ ~done /\ pending.type = "None"
  /\ Len(stack) = 0
  /\ reports' =
       IF ruleType = "var"
       THEN reports \o Flatten([k \in 1..Len(functionCalls) |->
                        CallReports(ruleType, isTypeScript, mutTypeVariables,
                                    functionsWithMutatingParams,
                                    functionCalls[k])])
       ELSE reports
  /\ done' = TRUE
  /\ UNCHANGED <<ruleType, isTypeScript, functionScopes,
                 functionsWithMutatingParams, functionCalls, mutTypeVariables,
                 stack, pending, fnCount, nodeCount, declCount, bodyTargets,
                 lastExit, declared, callsMet>>
  /\ UNCHANGED pureVars

\* ------------------------------------- invocations, event by event
\* An invocation of create() is followed through the events its visitors
\* are handed.  A function node carries its uid, the place of its enter
\* event; an assignment, update or call node is identified by the place of
\* its visit event.
DeclaratorEvent(node) == [kind |-> "declarator", node |-> node]
EnterEvent(node) == [kind |-> "enter", node |-> node]
VisitEvent(node) == [kind |-> "visit", node |-> node]
ExitEvent == [kind |-> "exit"]
EndEvent == [kind |-> "end"]

\* the function nodes on the node.parent chain after the events, outermost
\* first
RECURSIVE OpenFunctions(_)
OpenFunctions(events) ==
  IF events = <<>> THEN <<>>
  ELSE LET before == OpenFunctions(SubSeq(events, 1, Len(events) - 1))
           ev == events[Len(events)]
       IN IF ev.kind = "enter" THEN Append(before, ev.node)
          ELSE IF ev.kind = "exit" THEN SubSeq(before, 1, Len(before) - 1)
          ELSE before

\* Program:exit has been handed over
Ended(events) == events # <<>> /\ events[Len(events)].kind = "end"

\* the declarator whose init function must be entered next
PendingOf(events) ==
  IF /\ events # <<>>
     /\ events[Len(events)].kind = "declarator"
     /\ events[Len(events)].node.init # "Other"
  THEN events[Len(events)].node
  ELSE NoNode

\* lines 22-25: the collections one call of create() declares
FreshStore ==
  [functionScopes |-> EmptyMap,
   functionsWithMutatingParams |-> EmptyMap,
   functionCalls |-> <<>>,
   mutTypeVariables |-> {}]

\* a variant that declares the collections once, outside create()
moduleLevel(i) == 1

\* the closure the visitors of invocation i write to: its own
closureOf(i) == i

\* 'VariableDeclarator'(node)
onVariableDeclarator(rt, ts, s, node) ==
  [s EXCEPT !.mutTypeVariables =
     IF rt = "var" /\ ts /\ hasMutTypeAnnotation(node)
        /\ node.id.type = "Identifier"
     THEN @ \cup {node.id.name}
     ELSE @]

\* a variant that also takes a parameter annotated Mut<T> for a
\* typed-mutable variable
onFunctionEnterTyped(rt, ts, s, node) ==
  [s EXCEPT
     !.functionScopes =
       MapSet(@, node.uid, [params |-> CollectParams(rt, ts, node.params),
                            mutatedParams |-> <<>>]),
     !.mutTypeVariables =
       IF rt = "var" /\ ts
       THEN @ \cup {node.params[i].name :
                      i \in {j \in 1..Len(node.params) :
                               /\ node.params[j].type = "Identifier"
                               /\ hasMutType(node.params[j])}}
       ELSE @]

\* 'FunctionDeclaration, FunctionExpression, ArrowFunctionExpression'(node)
onFunctionEnter(rt, ts, s, node) ==
  [s EXCEPT !.functionScopes =
     MapSet(@, node.uid, [params |-> CollectParams(rt, ts, node.params),
                          mutatedParams |-> <<>>])]

\* a variant that looks at the innermost enclosing function only
onVisitInnermost(rt, s, open, node, uid) ==
  [s EXCEPT
     !.functionCalls = checkCrossFunctionMutation(rt, @, node, uid),
     !.functionScopes =
       [f \in DOMAIN @ |->
          IF open # <<>> /\ f = open[Len(open)].uid
          THEN RecordMutation(@[f], node)
          ELSE @[f]]]

\* 'AssignmentExpression, UpdateExpression, CallExpression'(node), the node
\* standing below the open functions
onVisit(rt, s, open, node, uid) ==
  [s EXCEPT
     !.functionCalls = checkCrossFunctionMutation(rt, @, node, uid),
     !.functionScopes =
       [f \in DOMAIN @ |->
          IF f \in {open[k].uid : k \in 1..Len(open)}
          THEN RecordMutation(@[f], node)
          ELSE @[f]]]

\* the function exit handler: what it reports
reportsAtExit(rt, ts, s, node) ==
  IF node.uid \in DOMAIN s.functionScopes
  THEN ParamReports(rt, ts, node, s.functionScopes[node.uid])
  ELSE <<>>

\* the function exit handler: what it leaves in the collections
onFunctionExit(rt, s, node) ==
  IF node.uid \in DOMAIN s.functionScopes
  THEN [s EXCEPT
          !.functionsWithMutatingParams =
            RecordProfile(rt, @, node, s.functionScopes[node.uid]),
          !.functionScopes = MapDelete(@, node.uid)]
  ELSE s

\* 'Program:exit', registered for the variable rule only
reportsAtProgramExit(rt, ts, s) ==
  IF rt = "var"
  THEN Flatten([k \in 1..Len(s.functionCalls) |->
                  CallReports(rt, ts, s.mutTypeVariables,
                              s.functionsWithMutatingParams,
                              s.functionCalls[k])])
  ELSE <<>>

\* the store and the reports of an invocation that is handed the events
\* alone, from a fresh closure
RECURSIVE Analyse(_, _, _)
Analyse(rt, ts, events) ==
  IF events = <<>> THEN [store |-> FreshStore, reports |-> <<>>]
  ELSE LET front == SubSeq(events, 1, Len(events) - 1)
           before == Analyse(rt, ts, front)
           open == OpenFunctions(front)
           ev == events[Len(events)]
       IN CASE ev.kind = "declarator" ->
                 [store |-> onVariableDeclarator(rt, ts, before.store, ev.node),
                  reports |-> before.reports]
            [] ev.kind = "enter" ->
                 [store |-> onFunctionEnter(rt, ts, before.store, ev.node),
                  reports |-> before.reports]
            [] ev.kind = "visit" ->
                 [store |-> onVisit(rt, before.store, open, ev.node,
                                    Len(events)),
                  reports |-> before.reports]
            [] ev.kind = "exit" ->
                 [store |-> onFunctionExit(rt, before.store,
                                           open[Len(open)]),
                  reports |-> before.reports
                                \o reportsAtExit(rt, ts, before.store,
                                                 open[Len(open)])]
            [] OTHER ->
                 [store |-> before.store,
                  reports |-> before.reports
                                \o reportsAtProgramExit(rt, ts, before.store)]

Invocations == DOMAIN programs

\* more events can be handed to invocation i
Running(i) ==
  /\ ~Ended(programs[i])
  /\ Len(programs[i]) < (CASE suite = "dialect" -> MaxDialectEvents
                            [] suite = "forward" -> MaxForwardEvents
                            [] Len(programs) > 1 -> MaxPairEvents
                            [] OTHER -> MaxEvents)

RunDeclarator(i, node) ==
  /\ Running(i) /\ PendingOf(programs[i]).type = "None"
  /\ programs' = [programs EXCEPT ![i] = Append(@, DeclaratorEvent(node))]
  /\ stores' = [stores EXCEPT ![closureOf(i)] =
                  onVariableDeclarator(ruleType, isTypeScript, @, node)]
  /\ UNCHANGED <<filename, suite, output>>
  /\ UNCHANGED ruleVars
  /\ UNCHANGED probeVars

RunEnter(i, shape, params) ==
  /\ Running(i)
  /\ IF PendingOf(programs[i]).type = "None"
     THEN shape.parent.type # "VariableDeclarator"
     ELSE /\ shape.parent = PendingOf(programs[i])
          /\ shape.type = PendingOf(programs[i]).init
  /\ Len(OpenFunctions(programs[i])) < MaxFunctions
  /\ Len(SelectSeq(programs[i], LAMBDA ev : ev.kind = "enter"))
       < (IF suite \in {"nested", "forward"} THEN MaxFunctions
          ELSE MaxRunFunctions)
  /\ LET node == [uid |-> Len(programs[i]) + 1, type |-> shape.type,
                  id |-> shape.id, parent |-> shape.parent,
                  params |-> params]
     IN /\ programs' = [programs EXCEPT ![i] = Append(@, EnterEvent(node))]
        /\ stores' = [stores EXCEPT ![closureOf(i)] =
                        onFunctionEnter(ruleType, isTypeScript, @, node)]
  /\ UNCHANGED <<filename, suite, output>>
  /\ UNCHANGED ruleVars
  /\ UNCHANGED probeVars

RunVisit(i, node) ==
  /\ Running(i) /\ PendingOf(programs[i]).type = "None"
  /\ programs' = [programs EXCEPT ![i] = Append(@, VisitEvent(node))]
  /\ stores' = [stores EXCEPT ![closureOf(i)] =
                  onVisit(ruleType, @, OpenFunctions(programs[i]), node,
                          Len(programs[i]) + 1)]
  /\ UNCHANGED <<filename, suite, output>>
  /\ UNCHANGED ruleVars
  /\ UNCHANGED probeVars

RunExit(i) ==
  /\ Running(i) /\ PendingOf(programs[i]).type = "None"
  /\ OpenFunctions(programs[i]) # <<>>
  /\ LET open == OpenFunctions(programs[i])
         node == open[Len(open)]
     IN /\ output' = [output EXCEPT ![i] =
                        @ \o reportsAtExit(ruleType, isTypeScript,
                                           stores[closureOf(i)], node)]
        /\ stores' = [stores EXCEPT ![closureOf(i)] =
                        onFunctionExit(ruleType, @, node)]
  /\ programs' = [programs EXCEPT ![i] = Append(@, ExitEvent)]
  /\ UNCHANGED <<filename, suite>>
  /\ UNCHANGED ruleVars
  /\ UNCHANGED probeVars

RunEnd(i) ==
  /\ Running(i) /\ PendingOf(programs[i]).type = "None"
  /\ OpenFunctions(programs[i]) = <<>>
  /\ output' = [output EXCEPT ![i] =
                  @ \o reportsAtProgramExit(ruleType, isTypeScript,
                                            stores[closureOf(i)])]
  /\ programs' = [programs EXCEPT ![i] = Append(@, EndEvent)]
  /\ UNCHANGED <<filename, suite, stores>>
  /\ UNCHANGED ruleVars
  /\ UNCHANGED probeVars

\* --------------------------------------------- programs of the suites
\* Each suite is a family of small programs built around one feature.
PlainParam(n) == [type |-> "Identifier", name |-> n, typeAnnotation |-> NoNode]

FunctionF ==
  [type |-> "FunctionDeclaration", id |-> Ident(nF), parent |-> OtherParent]

\* The declarators, function nodes, parameter lists and visited nodes of
\* each suite:
\*   "patterns": function f(<pattern binding a>, mutA), f(mutA, ...a) and
\*     the like, bodies writing to a and mutA, calls f(x, y)
\*   "order": function f(a, mutA), bodies writing to either in either order,
\*     calls f(a) and f(a, a) before or after the function
\*   "pair": function f(a), a body writing to a, a call f(a)
\*   "typed": const a: Mut<T>, const a: NS.Mut<T>, const {..}: Mut<T>,
\*     const v: Mut<T>; function f(a) writing to a; calls f(a) and f(mutA)
\*   "dialect": const a: Mut<T>, function f(a) writing to a
\*   "member": function f(a) writing to a; calls f(a), v.f(a), this.f(a),
\*     v[f](a), v['k'](a) and v.f(mutA)
\*   "bases": function f(a); this.p = v, f().p++, 'k'.p.p = v,
\*     (a || v).p++, a.p = v and the call f(a)
\*   "variants": const a: Mut<T>, function f(a) writing to a, the call
\*     f(a), for either rule on a '.js' or a '.ts' file
\*   "forward": functions f(a) and h(a), bodies writing to a or passing it
\*     on in f(a) or h(a), and the same calls outside
\*   "annotated": const a: Mut<T>; function f(a: Mut<T>) or
\*     f(mutA: Mut<T>) writing to its parameter and passing it on in f(a)
\*     or f(mutA)
\*   "nested": functions f(a, v) and f(v), nested or in sequence, a local
\*     const a anywhere, bodies writing to a and to v
SuiteDeclarators(st) ==
  CASE st \in {"dialect", "variants", "annotated"} ->
         {[type |-> "VariableDeclarator",
           id |-> [type |-> "Identifier", name |-> nA,
                   typeAnnotation |-> TypeRef(nMut)],
           init |-> "Other"]}
    [] st = "typed" ->
         {[type |-> "VariableDeclarator", id |-> i, init |-> "Other"] :
            i \in {[type |-> "Identifier", name |-> nA,
                    typeAnnotation |-> t] :
                     t \in {TypeRef(nMut), QualifiedMut}}
                  \cup {[type |-> "Identifier", name |-> nV,
                         typeAnnotation |-> TypeRef(nMut)],
                        [type |-> "ObjectPattern",
                         typeAnnotation |-> TypeRef(nMut)]}}
    [] st = "nested" ->
         {[type |-> "VariableDeclarator", id |-> PlainParam(nA),
           init |-> "Other"]}
    [] OTHER -> {}

SuiteShapes(st) ==
  CASE st \in {"patterns", "order", "pair", "typed", "member", "dialect",
               "bases", "nested", "variants", "annotated"} ->
         {FunctionF}
    [] st = "forward" -> {FunctionF, [FunctionF EXCEPT !.id = Ident(nH)]}
    [] OTHER -> {}

SuiteParamLists(st) ==
  CASE st = "patterns" ->
         {<<PlainParam(nA)>>, <<PlainParam(nMutA), PlainParam(nA)>>}
         \cup {<<p>> : p \in {ObjectPatternOf(nA), RestElement(nA)}}
         \cup {<<p, PlainParam(nMutA)>> :
                 p \in {ObjectPatternOf(nA), ArrayPatternOf(nA),
                        AssignmentPattern(nA)}}
         \cup {<<PlainParam(nMutA), RestElement(nA)>>}
    [] st = "order" -> {<<PlainParam(nA), PlainParam(nMutA)>>}
    [] st = "nested" ->
         {<<PlainParam(nA), PlainParam(nV)>>, <<PlainParam(nV)>>}
    [] st = "annotated" ->
         {<<[PlainParam(n) EXCEPT !.typeAnnotation = TypeRef(nMut)]>> :
            n \in {nA, nMutA}}
    [] st \in {"pair", "typed", "member", "dialect", "bases", "variants",
                "forward"} ->
         {<<PlainParam(nA)>>}
    [] OTHER -> {}

SuiteNodes(st, rt) ==
  CASE st = "patterns" ->
         {Assignment(Chain(Ident(nA), 1)), Assignment(Chain(Ident(nMutA), 1))}
         \cup (IF rt = "var"
               THEN {Call(Ident(nF), as) :
                       as \in {<<Ident(nA)>>, <<Ident(nA), Ident(nA)>>}}
               ELSE {})
    [] st = "order" ->
         {Assignment(Chain(Ident(nA), 1)), Assignment(Chain(Ident(nMutA), 1))}
         \cup {Call(Ident(nF), as) :
                 as \in {<<Ident(nA)>>, <<Ident(nA), Ident(nA)>>}}
    [] st = "pair" ->
         {Assignment(Chain(Ident(nA), 1))}
         \cup (IF rt = "var" THEN {Call(Ident(nF), <<Ident(nA)>>)} ELSE {})
    [] st = "typed" ->
         {Assignment(Chain(Ident(nA), 1)), Call(Ident(nF), <<Ident(nA)>>),
          Call(Ident(nF), <<Ident(nMutA)>>)}
    [] st = "member" ->
         {Assignment(Chain(Ident(nA), 1))}
         \cup {Call(c, <<Ident(nA)>>) :
                 c \in {Ident(nF), Member(Ident(nV), Ident(nF)),
                        Member(ThisExpression, Ident(nF)),
                        Computed(Ident(nV), Ident(nF)),
                        Computed(Ident(nV), StringLiteral)}}
         \cup {Call(Member(Ident(nV), Ident(nF)), <<Ident(nMutA)>>)}
    [] st = "dialect" -> {Assignment(Chain(Ident(nA), 1))}
    [] st = "nested" ->
         {Assignment(Chain(Ident(nA), 1)), Assignment(Chain(Ident(nV), 1))}
    [] st = "variants" ->
         {Assignment(Chain(Ident(nA), 1)), Call(Ident(nF), <<Ident(nA)>>)}
    [] st = "annotated" ->
         {Assignment(Chain(Ident(n), 1)) : n \in {nA, nMutA}}
         \cup {Call(Ident(nF), <<Ident(n)>>) : n \in {nA, nMutA}}
    [] st = "forward" ->
         {Assignment(Chain(Ident(nA), 1)), Call(Ident(nF), <<Ident(nA)>>)}
         \cup (IF rt = "var" THEN {Call(Ident(nH), <<Ident(nA)>>)} ELSE {})
    [] st = "bases" ->
         {Assignment(Member(ThisExpression, Ident(nP))),
          Update(Chain(Call(Ident(nF), <<>>), 1)),
          Assignment(Chain(StringLiteral, MaxChain)),
          Update(Member([type |-> "LogicalExpression"], Ident(nP))),
          Assignment(Chain(Ident(nA), 1)),
          Call(Ident(nF), <<Ident(nA)>>)}
    [] OTHER -> {}

RunNext ==
  \/ \E i \in Invocations, node \in SuiteDeclarators(suite) :
       RunDeclarator(i, node)
  \/ \E i \in Invocations, shape \in SuiteShapes(suite),
        params \in SuiteParamLists(suite) :
       RunEnter(i, shape, params)
  \/ \E i \in Invocations, node \in SuiteNodes(suite, ruleType) :
       RunVisit(i, node)
  \/ \E i \in Invocations : RunExit(i)
  \/ \E i \in Invocations : RunEnd(i)

\* the traversal of a program without variable declarations
RunFunctionsNext ==
  \/ \E i \in Invocations, shape \in SuiteShapes(suite),
        params \in SuiteParamLists(suite) :
       RunEnter(i, shape, params)
  \/ \E i \in Invocations, node \in SuiteNodes(suite, ruleType) :
       RunVisit(i, node)
  \/ \E i \in Invocations : RunExit(i)
  \/ \E i \in Invocations : RunEnd(i)

\* ------------------------------------------------------- specifications
RuleTypes == {"param", "var"}

\* identifier texts for the prefix test
TextAlphabet == {"m", "u", "t", "M", "F", "f", "_"}
Texts == SeqsUpTo(TextAlphabet, MaxTextLen)

\* hasMutPrefix applied to a text
CheckPrefix ==
  /\ text # Null /\ verdict = <<>>
  /\ verdict' = <<hasMutPrefix(text)>>
  /\ UNCHANGED <<text, probe, recorded>>
  /\ UNCHANGED ruleVars
  /\ UNCHANGED runVars

\* getErrorMessage(paramName) as the parameter rule calls it on an untyped
\* source for a parameter of that name
Suggest ==
  /\ text # Null /\ recorded = <<>>
  /\ recorded' = <<getErrorMessage("param", FALSE, text, Null)>>
  /\ UNCHANGED <<text, verdict, probe>>
  /\ UNCHANGED ruleVars
  /\ UNCHANGED runVars

\* nodes for the classifier: x.m(), x.p.m(), this.m(), x['push'](), f(),
\* and writes through member chains
MethodNames ==
  MutatingMethods
    \cup {nMap, <<"f", "i", "l", "t", "e", "r">>, <<"s", "l", "i", "c", "e">>,
          <<"r", "e", "d", "u", "c", "e">>, <<"c", "o", "n", "c", "a", "t">>}

Bases == {Ident(nA), Ident(nMutA), Ident(nV), ThisExpression}

CalleeObjects ==
  Bases \cup {Chain(b, d) : b \in {Ident(nA), ThisExpression},
                            d \in 1..MaxChain}

WriteTargetNodes ==
  {Chain(b, d) : b \in Bases, d \in 1..MaxChain} \cup {Ident(nA)}

\* o.p, o[a] and o['k'] on top of o, and the chains of up to MaxAccessDepth
\* such accesses in every mix
Accesses(o) ==
  {Member(o, Ident(nP)), Computed(o, Ident(nA)), Computed(o, StringLiteral)}

RECURSIVE AccessChains(_, _)
AccessChains(bases, depth) ==
  IF depth = 0 THEN bases
  ELSE UNION {Accesses(o) : o \in AccessChains(bases, depth - 1)}

MixedTargetNodes == UNION {AccessChains(Bases, d) : d \in 1..MaxAccessDepth}

ClassifierNodes ==
  {Call(Member(o, Ident(m)), <<>>) : o \in CalleeObjects, m \in MethodNames}
  \cup {Call(Member(o, StringLiteral), <<>>) : o \in CalleeObjects}
  \cup {Call(Ident(nF), <<Ident(nA)>>)}
  \cup {Assignment(t) : t \in WriteTargetNodes}
  \cup {Update(t) : t \in WriteTargetNodes}
  \cup {Assignment(t) : t \in MixedTargetNodes}
  \cup {Update(t) : t \in MixedTargetNodes}

\* a scope as the function-enter visitor builds it, nothing mutated yet
FreshScope(names) ==
  [params |-> [n \in names |-> [node |-> 0, isValidMutable |-> FALSE]],
   mutatedParams |-> <<>>]

\* the visitor's loop body applied to one node and one fresh scope
Classify ==
  /\ probe.type # "None" /\ recorded = <<>>
  /\ recorded' =
       <<RecordMutation(FreshScope(probe.paramNames), probe.node).mutatedParams>>
  /\ UNCHANGED <<text, verdict, probe>>
  /\ UNCHANGED ruleVars
  /\ UNCHANGED runVars

\* the state create() sets up
Start ==
  /\ functionScopes = EmptyMap
  /\ functionsWithMutatingParams = EmptyMap
  /\ functionCalls = <<>>
  /\ mutTypeVariables = {}
  /\ reports = <<>>
  /\ stack = <<>>
  /\ pending = NoNode
  /\ done = FALSE
  /\ fnCount = 0
  /\ nodeCount = 0
  /\ declCount = 0
  /\ bodyTargets = EmptyMap
  /\ lastExit = NoExit
  /\ declared = EmptyMap
  /\ callsMet = <<>>

\* no invocation is followed event by event
NoRuns ==
  /\ suite = "none"
  /\ programs = <<>>
  /\ stores = <<>>
  /\ output = <<>>

Idle ==
  /\ text = Null
  /\ verdict = <<>>
  /\ probe = NoNode
  /\ recorded = <<>>
  /\ NoRuns

\* create(context): the dialect is read off the file name
Create(files) ==
  /\ filename \in files
  /\ isTypeScript = isTypeScriptFile(filename)

InitParam == ruleType = "param" /\ Create(SourceFiles) /\ Start /\ Idle

InitVar == ruleType = "var" /\ Create(SourceFiles) /\ Start /\ Idle

VisitDeclarator ==
  \E node \in Declarators(ruleType, isTypeScript) : VariableDeclarator(node)

Enter ==
  \E shape \in FunctionShapes(ruleType, isTypeScript, pending),
     params \in ParamLists(ruleType, isTypeScript) :
    EnterFunction(shape, params)

VisitNode == \E node \in VisitNodes(ruleType, isTypeScript) : Visit(node)

Next == VisitDeclarator \/ Enter \/ VisitNode \/ ExitFunction \/ ProgramExit

\* the parameter rule and the variable rule, each over one traversal
SpecParam == InitParam /\ [][Next]_vars

SpecVar == InitVar /\ [][Next]_vars

\* the prefix test over every text up to MaxTextLen
InitPrefix ==
  /\ ruleType = "param" /\ Create({jsFile}) /\ Start
  /\ text \in Texts \ {Null}
  /\ verdict = <<>>
  /\ probe = NoNode
  /\ recorded = <<>>
  /\ NoRuns

SpecPrefix == InitPrefix /\ [][CheckPrefix]_vars

\* the prefix test and the message of the parameter rule over every text
SpecSuggest == InitPrefix /\ [][CheckPrefix \/ Suggest]_vars

\* the classifier over every node shape and every set of parameter names
InitClassify ==
  /\ ruleType = "param" /\ Create({jsFile}) /\ Start
  /\ text = Null
  /\ verdict = <<>>
  /\ probe \in [type : {"Probe"}, node : ClassifierNodes,
                 paramNames : SUBSET ParamNames]
  /\ recorded = <<>>
  /\ NoRuns

SpecClassify == InitClassify /\ [][Classify]_vars

\* n invocations of create() on the file, nothing handed over yet
InitRuns(st, rts, files, n) ==
  /\ ruleType \in rts /\ Create(files) /\ Start
  /\ text = Null /\ verdict = <<>> /\ probe = NoNode /\ recorded = <<>>
  /\ suite = st
  /\ programs = [i \in 1..n |-> <<>>]
  /\ stores = [c \in {closureOf(i) : i \in 1..n} |-> FreshStore]
  /\ output = [i \in 1..n |-> <<>>]

\* one invocation over the programs with pattern parameters
SpecPatterns ==
  InitRuns("patterns", RuleTypes, {jsFile}, 1) /\ [][RunFunctionsNext]_vars

\* one invocation of the variable rule over the programs of "order"
SpecOrder ==
  InitRuns("order", {"var"}, {jsFile}, 1) /\ [][RunFunctionsNext]_vars

\* one invocation of the variable rule over annotated declarations, on a
\* '.js' or a '.ts' file
SpecTyped ==
  InitRuns("typed", {"var"}, SourceFiles, 1) /\ [][RunNext]_vars

\* one invocation on a file of any name: 'a.js', 'a.ts' and every text over
\* the characters of the two extensions
FileNames == SeqsUpTo({".", "t", "s", "x"}, MaxNameLen) \cup SourceFiles

SpecDialect ==
  InitRuns("dialect", RuleTypes, FileNames, 1) /\ [][RunNext]_vars

\* one invocation of the variable rule over direct and member calls
SpecMember ==
  InitRuns("member", {"var"}, {jsFile}, 1) /\ [][RunFunctionsNext]_vars

\* one invocation over writes whose chain starts at this, a call result, a
\* literal or a compound expression, inside and outside function f(a)
SpecBases ==
  InitRuns("bases", RuleTypes, {jsFile}, 1) /\ [][RunFunctionsNext]_vars

\* one invocation over two functions, nested or in sequence, with local
\* declarations
SpecNested ==
  InitRuns("nested", RuleTypes, {jsFile}, 1) /\ [][RunNext]_vars

\* one invocation of either rule over a declaration, a function and a call
SpecVariants ==
  InitRuns("variants", RuleTypes, SourceFiles, 1) /\ [][RunNext]_vars

\* one invocation over a function that passes its parameter on to another
SpecForward ==
  InitRuns("forward", RuleTypes, {jsFile}, 1) /\ [][RunFunctionsNext]_vars

\* one invocation of the variable rule on a '.ts' file over a function
\* whose parameter is annotated Mut<T>
SpecAnnotated ==
  InitRuns("annotated", {"var"}, {tsFile}, 1) /\ [][RunNext]_vars

\* two invocations of create() on one file, their events interleaved
SpecPair ==
  InitRuns("pair", RuleTypes, {jsFile}, 2) /\ [][RunFunctionsNext]_vars

\* ------------------------------------------------------------ properties
\* the prefix marker as the convention states it: 'mut', then a letter A-Z
PrefixMarker(t) ==
  /\ Len(t) >= 4
  /\ SubSeq(t, 1, 3) = <<"m", "u", "t">>
  /\ t[4] \in UpperCase

\* the marker that applies to a parameter declaration
ParamMarked(p) ==
  IF isTypeScript THEN p.typeAnnotation = TypeRef(nMut)
  ELSE PrefixMarker(p.name)

\* the marker that applies to an identifier argument
ArgMarked(arg) ==
  \/ PrefixMarker(arg.name)
  \/ isTypeScript /\ arg.name \in mutTypeVariables

\* the names the body of a function targets, whatever they are bound to
TextTargets(t) == t.free \cup t.shadowed

\* the simple-identifier parameters of the function left last
ExitedParams ==
  {i \in 1..Len(lastExit.params) : lastExit.params[i].type = "Identifier"}

\* the reports on parameter i (counted from 1) of the function left last
ParamReportsOn(i) ==
  {k \in 1..Len(reports) :
     /\ reports[k].node = [owner |-> lastExit.uid, index |-> i - 1]
     /\ reports[k].message.name = lastExit.params[i].name}

ExitedOwnReports ==
  {k \in 1..Len(reports) : reports[k].node.owner = lastExit.uid}

ParamExit == ruleType = "param" /\ lastExit.uid # 0

\* C1: under the parameter rule, a simple-identifier parameter that some
\* x.prop = v, x.prop++ or x.m() (m one of the eight) in the function's body
\* targets has, once the function is left, exactly one violation if it lacks
\* the applicable marker and none if it has it, however many sites target it.
C1_OneViolationPerMutatedParam ==
  ParamExit =>
    \A i \in ExitedParams :
      lastExit.params[i].name \in TextTargets(lastExit.targets) =>
        Cardinality(ParamReportsOn(i)) =
          (IF ParamMarked(lastExit.params[i]) THEN 0 ELSE 1)

\* C1 witness: a function was left whose unmarked parameter two sites target,
\* with one violation for it
C1_Witness ==
  /\ ParamExit
  /\ \E i \in ExitedParams :
       /\ ~ParamMarked(lastExit.params[i])
       /\ lastExit.targets.sites[lastExit.params[i].name] >= 2
       /\ Cardinality(ParamReportsOn(i)) = 1

\* C2: under the parameter rule, a function whose body (nested bodies
\* included) holds no mutating operation rooted at one of its parameter
\* names has no violation, whatever the names, annotations or the local
\* variables mutated.
C2_NoMutationNoViolation ==
  ParamExit =>
    ((\A i \in ExitedParams :
        lastExit.params[i].name \notin TextTargets(lastExit.targets))
       => ExitedOwnReports = {})

\* C2 witness: a function with an unmarked parameter was left after its body
\* mutated the local variable v only, and it has no violation
C2_Witness ==
  /\ ParamExit
  /\ \E i \in ExitedParams : ~ParamMarked(lastExit.params[i])
  /\ nV \in lastExit.targets.free
  /\ \A i \in ExitedParams :
       lastExit.params[i].name \notin TextTargets(lastExit.targets)
  /\ ExitedOwnReports = {}

Classified == recorded # <<>>

\* C3: a call expression is recorded as a mutation of parameter x exactly
\* when its callee is a member access directly on the identifier x whose
\* property name is one of push, pop, shift, unshift, splice, sort, reverse,
\* fill; other method names and calls on a deeper chain record nothing.
C3_CallClassification ==
  (Classified /\ probe.node.type = "CallExpression") =>
    \A x \in TargetNames :
      Has(recorded[1], x) <=>
        (x \in probe.paramNames /\ CallTargets(probe.node, x))

\* C3 witness: a.fill() was classified with a among the parameters and a was
\* recorded
C3_Witness ==
  /\ Classified
  /\ probe.node = Call(Member(Ident(nA), Ident(nFill)), <<>>)
  /\ nA \in probe.paramNames
  /\ recorded[1] = <<nA>>

\* C4: hasMutPrefix is true exactly for the texts that start with lowercase
\* 'mut' followed at once by a letter A-Z: 'mutF...' passes; 'mut', 'mutf',
\* 'Mutf' and 'mut_' fail.
C4_PrefixPredicate ==
  verdict # <<>> =>
    /\ verdict[1] = PrefixMarker(text)
    /\ (text = <<"m", "u", "t", "F">> => verdict[1] = TRUE)
    /\ (text \in {<<"m", "u", "t">>, <<"m", "u", "t", "f">>,
                  <<"M", "u", "t", "f">>, <<"m", "u", "t", "_">>}
          => verdict[1] = FALSE)

\* C4 witness: the text mutF was tested and passes
C4_Witness == text = <<"m", "u", "t", "F">> /\ verdict = <<TRUE>>

\* the direct calls f(...) met
DirectCalls(f) ==
  {k \in 1..Len(callsMet) : callsMet[k].callee = Ident(f)}

\* the reports on argument i (counted from 0) of a call
ArgReportsOn(call, i) ==
  {k \in 1..Len(reports) :
     reports[k].node = [owner |-> call.node, index |-> i]}

\* every identifier argument of the call at a position in P has exactly one
\* violation naming it and f when it lacks the marker, and none when marked
CallChecked(call, f, P) ==
  \A i \in P :
    (i < Len(call.arguments) /\ call.arguments[i + 1].type = "Identifier")
      => IF ArgMarked(call.arguments[i + 1])
         THEN ArgReportsOn(call, i) = {}
         ELSE /\ Cardinality(ArgReportsOn(call, i)) = 1
              /\ \A k \in ArgReportsOn(call, i) :
                   /\ reports[k].message.name = call.arguments[i + 1].name
                   /\ reports[k].message.function = f

VarDone == ruleType = "var" /\ done

\* C5 as stated: for every named function f whose parameter at position i is
\* mutated in its body, every call f(...) with an unmarked identifier at
\* position i has exactly one violation on it, and a marked one has none.
C5_Original ==
  VarDone =>
    \A f \in DOMAIN declared :
      \A P \in declared[f].all :
        \A k \in DirectCalls(f) : CallChecked(callsMet[k], f, P)

\* C5 amended: the same for the function that was left last among the
\* functions bound to the name f that mutate a parameter.
C5_LastProfileChecked ==
  VarDone =>
    \A f \in DOMAIN declared :
      \A k \in DirectCalls(f) : CallChecked(callsMet[k], f, declared[f].last)

\* C5 witness: the program ended with a call f(.., x, ..) passing an unmarked
\* identifier at a position f mutates, and that argument has one violation
C5_Witness ==
  /\ VarDone
  /\ \E f \in DOMAIN declared :
       \E k \in DirectCalls(f) :
         \E i \in declared[f].last :
           /\ i < Len(callsMet[k].arguments)
           /\ callsMet[k].arguments[i + 1].type = "Identifier"
           /\ ~ArgMarked(callsMet[k].arguments[i + 1])
           /\ Cardinality(ArgReportsOn(callsMet[k], i)) = 1

\* the violations a direct call is due: one per unmarked identifier argument
\* at a position the function bound to the callee's name mutates
DueReports(call) ==
  IF call.callee.type = "Identifier" /\ call.callee.name \in DOMAIN declared
  THEN {[node |-> [owner |-> call.node, index |-> i],
         name |-> call.arguments[i + 1].name] :
          i \in {j \in declared[call.callee.name].last :
                   /\ j < Len(call.arguments)
                   /\ call.arguments[j + 1].type = "Identifier"
                   /\ ~ArgMarked(call.arguments[j + 1])}}
  ELSE {}

GotReports(call) ==
  {[node |-> reports[k].node, name |-> reports[k].message.name] :
     k \in {j \in 1..Len(reports) : reports[j].node.owner = call.node}}

\* C6: the variable rule reports nothing before Program:exit, and then the
\* violations of a direct call are those due by the function bound to its
\* callee's name, whether that function was left before or after the call
\* was met.
C6_DeferredResolution ==
  ruleType = "var" =>
    /\ ~done => reports = <<>>
    /\ done => \A k \in 1..Len(callsMet) :
                 callsMet[k].callee.type = "Identifier"
                   => GotReports(callsMet[k]) = DueReports(callsMet[k])

\* C6 witness: a call met before the function it names was left has a
\* violation at the end
C6_Witness ==
  /\ VarDone
  /\ \E k \in 1..Len(callsMet) :
       /\ callsMet[k].callee.type = "Identifier"
       /\ callsMet[k].callee.name \in DOMAIN declared
       /\ k <= declared[callsMet[k].callee.name].callsBefore
       /\ GotReports(callsMet[k]) # {}

C8_Original ==
  \A f \in DOMAIN bodyTargets :
    \A x \in bodyTargets[f].shadowed \ bodyTargets[f].free :
      f \in DOMAIN functionScopes
        => ~Has(functionScopes[f].mutatedParams, x)

\* the name the claim binds a function to: a declaration's identifier, and
\* for an arrow function or a function expression the variable whose
\* declarator it initialises
ClaimedName(fn) ==
  IF fn.type = "FunctionDeclaration"
  THEN (IF fn.id.type = "Identifier" THEN fn.id.name ELSE Null)
  ELSE IF fn.parent.type = "VariableDeclarator"
          /\ fn.parent.id.type = "Identifier"
       THEN fn.parent.id.name
       ELSE Null

\* the positions in increasing order
RECURSIVE Ascending(_)
Ascending(P) ==
  IF P = {} THEN <<>>
  ELSE LET m == CHOOSE x \in P : \A y \in P : x <= y
       IN <<m>> \o Ascending(P \ {m})

VarExit == ruleType = "var" /\ lastExit.uid # 0

ProfileUnder(n, P) ==
  /\ n \in DOMAIN functionsWithMutatingParams
  /\ functionsWithMutatingParams[n] = Ascending(P)

CallOf(r) == CHOOSE c \in {callsMet[k] : k \in 1..Len(callsMet)} :
               c.node = r.node.owner

\* C10: under the variable rule every reported argument is a simple
\* identifier; an object or array literal, a literal, a call, a member
\* expression or a spread element at a mutated position has no violation.
C10_OnlyIdentifiersReported ==
  ruleType = "var" =>
    \A k \in 1..Len(reports) :
      /\ \E c \in {callsMet[j] : j \in 1..Len(callsMet)} :
           c.node = reports[k].node.owner
      /\ reports[k].node.index < Len(CallOf(reports[k]).arguments)
      /\ CallOf(reports[k]).arguments[reports[k].node.index + 1].type
           = "Identifier"

\* C10 witness: the program ended with a call f(e), e not an identifier, at
\* a position f mutates, and the call has no violation
C10_Witness ==
  /\ VarDone
  /\ \E k \in 1..Len(callsMet) :
       /\ callsMet[k].callee.type = "Identifier"
       /\ callsMet[k].callee.name \in DOMAIN functionsWithMutatingParams
       /\ \E j \in 1..Len(functionsWithMutatingParams[callsMet[k].callee.name]) :
            LET i == functionsWithMutatingParams[callsMet[k].callee.name][j]
            IN /\ i < Len(callsMet[k].arguments)
               /\ callsMet[k].arguments[i + 1].type # "Identifier"
       /\ GotReports(callsMet[k]) = {}

\* ------------------------------------- properties of the followed programs
\* the program handed to the first invocation, and what it reported
Prog == programs[1]
Out == output[1]

\* the enter events of the program
Functions(events) == {k \in 1..Len(events) : events[k].kind = "enter"}

\* the visit events that are call expressions
Calls(events) ==
  {j \in 1..Len(events) :
     events[j].kind = "visit" /\ events[j].node.type = "CallExpression"}

\* event j lies in the body of the function entered at k, nested bodies
\* included
InBody(events, k, j) ==
  /\ k < j
  /\ \E m \in 1..Len(OpenFunctions(SubSeq(events, 1, j - 1))) :
       OpenFunctions(SubSeq(events, 1, j - 1))[m].uid = k

\* the function entered at k has been left
Left(events, k) ==
  \A m \in 1..Len(OpenFunctions(events)) : OpenFunctions(events)[m].uid # k

\* the place of the exit event of the function entered at k
ExitPlace(events, k) ==
  CHOOSE j \in (k + 1)..Len(events) :
    /\ events[j].kind = "exit"
    /\ InBody(events, k, j)
    /\ Left(SubSeq(events, 1, j), k)

\* the names the body of the function entered at k writes to or calls a
\* mutating method on
TargetsIn(events, k) ==
  {x \in TargetNames :
     \E j \in 1..Len(events) :
       /\ events[j].kind = "visit"
       /\ InBody(events, k, j)
       /\ Targets(events[j].node, x)}

\* the zero-based positions, in the full parameter list of the function
\* entered at k, of the simple identifiers its body targets
MutatedPositions(events, k) ==
  TargetedPositions(events[k].node.params, TargetsIn(events, k))

\* the function a call through the name n is checked against: of the
\* functions bound to n that have been left and target a parameter, the one
\* left last
Profiled(events, n) ==
  {k \in Functions(events) :
     /\ BoundName(events[k].node) = n
     /\ Left(events, k)
     /\ MutatedPositions(events, k) # {}}

LastProfiled(events, n) ==
  CHOOSE k \in Profiled(events, n) :
    \A m \in Profiled(events, n) :
      ExitPlace(events, m) <= ExitPlace(events, k)

\* the positions at which the reports point into the call visited at j
ReportedAt(reps, j) ==
  {reps[r].node.index : r \in {q \in 1..Len(reps) : reps[q].node.owner = j}}

\* the positions of the call's arguments that are identifiers without the
\* prefix marker
UnmarkedAt(call) ==
  {i \in 0..(Len(call.arguments) - 1) :
     /\ call.arguments[i + 1].type = "Identifier"
     /\ ~PrefixMarker(call.arguments[i + 1].name)}

VarEnded == ruleType = "var" /\ Ended(Prog)

\* C11: under the variable rule the arguments reported for a call f(...)
\* are exactly the unmarked identifiers standing at the zero-based index
\* that a mutated simple-identifier parameter has in the full parameter list
\* of f (patterns, defaults and rest parameters counted); a mutated position
\* at or beyond the number of arguments yields nothing.
C11_ArgumentAtDeclaredIndex ==
  (VarEnded /\ ~isTypeScript) =>
    \A j \in Calls(Prog) :
      Prog[j].node.callee.type = "Identifier" =>
        ReportedAt(Out, j) =
          (IF Profiled(Prog, Prog[j].node.callee.name) = {} THEN {}
           ELSE MutatedPositions(Prog,
                  LastProfiled(Prog, Prog[j].node.callee.name))
                  \cap UnmarkedAt(Prog[j].node))

\* C11 witness: f(<pattern>, mutA) mutates mutA; f(a) is not reported and
\* f(a, a) is reported at index 1 only
C11_Witness ==
  /\ VarEnded
  /\ \E k \in Functions(Prog) :
       /\ Prog[k].node.params[1].type # "Identifier"
       /\ MutatedPositions(Prog, k) = {1}
  /\ \E j \in Calls(Prog) :
       /\ Prog[j].node.arguments = <<Ident(nA), Ident(nA)>>
       /\ ReportedAt(Out, j) = {1}
  /\ \E j \in Calls(Prog) :
       /\ Prog[j].node.arguments = <<Ident(nA)>>
       /\ ReportedAt(Out, j) = {}

\* the name a call is recorded under, read off the callee
CalledName(call) ==
  CASE call.callee.type = "Identifier" -> call.callee.name
    [] call.callee.type = "MemberExpression"
         /\ call.callee.property.type = "Identifier" ->
         call.callee.property.name
    [] OTHER -> Null

\* the argument positions of the call visited at j that are due a report
DuePositions(events, j) ==
  IF CalledName(events[j].node) = Null
       \/ Profiled(events, CalledName(events[j].node)) = {}
  THEN {}
  ELSE MutatedPositions(events, LastProfiled(events,
                                             CalledName(events[j].node)))
         \cap UnmarkedAt(events[j].node)

\* a finite set of numbers as the ascending sequence of its elements
RECURSIVE AscendingSeq(_)
AscendingSeq(S) ==
  IF S = {} THEN <<>>
  ELSE LET least == CHOOSE x \in S : \A y \in S : x <= y
       IN <<least>> \o AscendingSeq(S \ {least})

\* call by call in the order of the visits, and position by position
\* ascending within a call: the places due a report
RECURSIVE DuePlaces(_, _)
DuePlaces(events, upto) ==
  IF upto = 0 THEN <<>>
  ELSE DuePlaces(events, upto - 1)
         \o (IF upto \in Calls(events)
             THEN LET due == AscendingSeq(DuePositions(events, upto))
                  IN [r \in 1..Len(due) |-> <<upto, due[r]>>]
             ELSE <<>>)

\* the places the reports point at, in the order of the reports
Places(reps) ==
  [r \in 1..Len(reps) |-> <<reps[r].node.owner, reps[r].node.index>>]

\* C12: under the variable rule the sequence of reports is determined by
\* the event sequence: the calls in the order they were visited, and within
\* one call the positions in strictly increasing order.
C12_ReportOrder ==
  VarEnded => Places(Out) = DuePlaces(Prog, Len(Prog))

\* C12 witness: the body writes to the second parameter before the first,
\* and the call is reported at position 0 and then at position 1
C12_Witness ==
  /\ VarEnded
  /\ \E k \in Functions(Prog), j \in Calls(Prog) :
       /\ Prog[k + 1] = VisitEvent(Assignment(Chain(Ident(nMutA), 1)))
       /\ Prog[k + 2] = VisitEvent(Assignment(Chain(Ident(nA), 1)))
       /\ Prog[k].node.params = <<PlainParam(nA), PlainParam(nMutA)>>
       /\ Places(Out) = <<<<j, 0>>, <<j, 1>>>>

MutAnnotated(p) ==
  /\ p.typeAnnotation.type = "TSTypeReference"
  /\ p.typeAnnotation = TypeRef(nMut)

TypedParamExit == ParamExit /\ isTypeScript

\* C14: in typed sources, under the parameter rule, a parameter the body
\* targets goes unreported exactly when its annotation is a type reference
\* named Mut; the mut prefix on the name does not exempt it, and the message
\* of every such report is the Mut<T> one.
C14_TypedParamNeedsMutType ==
  TypedParamExit =>
    \A i \in ExitedParams :
      lastExit.params[i].name \in TextTargets(lastExit.targets) =>
        /\ (ParamReportsOn(i) = {}) <=> MutAnnotated(lastExit.params[i])
        /\ \A k \in ParamReportsOn(i) :
             reports[k].message
               = [template |-> "param-ts",
                  name |-> lastExit.params[i].name,
                  function |-> Null, suggestion |-> Null]

\* C14 witness: a targeted parameter mutA: User of a typed source, with the
\* prefix and without the Mut type, reported with the Mut<T> message
C14_Witness ==
  /\ TypedParamExit
  /\ \E i \in ExitedParams :
       /\ PrefixMarker(lastExit.params[i].name)
       /\ ~MutAnnotated(lastExit.params[i])
       /\ lastExit.params[i].name \in TextTargets(lastExit.targets)
       /\ \E k \in ParamReportsOn(i) :
            reports[k].message.template = "param-ts"

\* the names the program declares by a simple identifier annotated with a
\* type reference to the unqualified name Mut
DeclaredMut(events) ==
  {x \in TargetNames :
     \E j \in 1..Len(events) :
       /\ events[j].kind = "declarator"
       /\ events[j].node.id.type = "Identifier"
       /\ events[j].node.id.name = x
       /\ events[j].node.id.typeAnnotation = TypeRef(nMut)}

\* the reports pointing at position i of the call visited at j
ReportsAtPlace(reps, j, i) ==
  {r \in 1..Len(reps) : reps[r].node = [owner |-> j, index |-> i]}

\* the positions of the call visited at j that the function it names mutates
CheckedPositions(events, j) ==
  IF CalledName(events[j].node) = Null
       \/ Profiled(events, CalledName(events[j].node)) = {}
  THEN {}
  ELSE {i \in MutatedPositions(events,
                LastProfiled(events, CalledName(events[j].node))) :
          /\ i < Len(events[j].node.arguments)
          /\ events[j].node.arguments[i + 1].type = "Identifier"}

\* C15: under the variable rule an identifier argument at a mutated
\* position has no report if, in a typed source, its name is declared
\* somewhere in the program (before or after the call) by a declarator
\* annotated Mut<...>, or if its name has the mut prefix; otherwise it has
\* exactly one.  In untyped sources the set of typed-mutable names stays
\* empty, in typed ones it holds the names declared so.
C15_TypedArgumentMarker ==
  /\ ruleType = "var" =>
       stores[1].mutTypeVariables
         = (IF isTypeScript THEN DeclaredMut(Prog) ELSE {})
  /\ VarEnded =>
       \A j \in Calls(Prog) :
         \A i \in CheckedPositions(Prog, j) :
           Cardinality(ReportsAtPlace(Out, j, i)) =
             (IF \/ PrefixMarker(Prog[j].node.arguments[i + 1].name)
                 \/ /\ isTypeScript
                    /\ Prog[j].node.arguments[i + 1].name
                         \in DeclaredMut(Prog)
              THEN 0 ELSE 1)

\* C15 witness: a typed source in which f(a) is called at a mutated
\* position before const a: Mut<T> is declared, and nothing is reported
C15_Witness ==
  /\ VarEnded /\ isTypeScript
  /\ Out = <<>>
  /\ \E j \in Calls(Prog) :
       /\ 0 \in CheckedPositions(Prog, j)
       /\ Prog[j].node.arguments = <<Ident(nA)>>
       /\ \E d \in (j + 1)..Len(Prog) :
            /\ Prog[d].kind = "declarator"
            /\ Prog[d].node.id.type = "Identifier"
            /\ Prog[d].node.id.name = nA
            /\ Prog[d].node.id.typeAnnotation = TypeRef(nMut)

\* the last k characters of a name, the whole name if it is shorter
LastChars(name, k) ==
  IF Len(name) <= k THEN name ELSE SubSeq(name, Len(name) - k + 1, Len(name))

\* the name ends with '.ts' or with '.tsx'
TypedName(name) ==
  \/ LastChars(name, 3) = <<".", "t", "s">>
  \/ LastChars(name, 4) = <<".", "t", "s", "x">>

\* the wording of a report is the typed one
TypedWording(message) == message.template \in {"param-ts", "arg-ts"}

\* C16: the dialect of an invocation is typed exactly when the file name
\* ends with '.ts' or '.tsx', whatever has been traversed; the reports are
\* worded and the typed-mutable names recorded accordingly; and no visitor
\* changes the dialect or the file name.
C16_DialectFromFileName ==
  /\ [](/\ isTypeScript <=> TypedName(filename)
        /\ \A r \in 1..Len(Out) :
             TypedWording(Out[r].message) <=> TypedName(filename)
        /\ stores[1].mutTypeVariables # {} => TypedName(filename))
  /\ [][isTypeScript' = isTypeScript /\ filename' = filename]_vars

\* C16 witness: a file whose name ends with '.tsx', a parameter reported in
\* the typed wording
C16_Witness ==
  /\ LastChars(filename, 4) = <<".", "t", "s", "x">>
  /\ Len(filename) = MaxNameLen
  /\ isTypeScript
  /\ Out # <<>>
  /\ TypedWording(Out[1].message)

\* the target of an assignment or an update expression
WriteTarget(node) ==
  IF node.type = "AssignmentExpression" THEN node.left ELSE node.argument

\* the number of member accesses between a target and its left-most base
RECURSIVE AccessDepth(_)
AccessDepth(e) ==
  IF e.type = "MemberExpression" THEN 1 + AccessDepth(e.object) ELSE 0

ClassifiedWrite ==
  /\ Classified
  /\ probe.node.type \in {"AssignmentExpression", "UpdateExpression"}

\* C17: for an assignment or an update whose target is a chain of member
\* accesses, dotted or computed in any mix and of any depth, the name
\* recorded is the identifier at the left-most base of the chain, if that
\* base is an identifier and names a parameter; nothing is recorded when the
\* base is something else, when the name is no parameter, or for a name that
\* only occurs as a computed key.
C17_RootOfMemberChain ==
  ClassifiedWrite =>
    \A x \in TargetNames :
      Has(recorded[1], x) <=>
        /\ x \in probe.paramNames
        /\ WriteTarget(probe.node).type = "MemberExpression"
        /\ LeftMostBase(WriteTarget(probe.node)) = Ident(x)

\* C17 witness: mutA[a].p['k']++ classified with a and mutA among the
\* parameters: mutA is recorded, the computed key a is not
C17_Witness ==
  /\ ClassifiedWrite
  /\ probe.node
       = Update(Computed(Member(Computed(Ident(nMutA), Ident(nA)), Ident(nP)),
                         StringLiteral))
  /\ AccessDepth(WriteTarget(probe.node)) = MaxAccessDepth
  /\ probe.paramNames = {nA, nMutA}
  /\ recorded[1] = <<nMutA>>

\* the names the simple-identifier parameters of a list declare
IdentifierNames(params) ==
  {params[i].name :
     i \in {j \in 1..Len(params) : params[j].type = "Identifier"}}

\* the positions (counted from 1) of the parameters that are patterns,
\* defaults or rest elements
PatternPlaces(params) ==
  {i \in 1..Len(params) : params[i].type # "Identifier"}

\* the functions of the program that are still open
StillOpen(events) == {k \in Functions(events) : ~Left(events, k)}

\* C18: the parameter record of an open function holds exactly the names of
\* its simple-identifier parameters, never a name bound by a destructuring
\* pattern, a default-valued parameter or a rest element; and under the
\* parameter rule no report points at such a parameter or carries the name
\* it binds, even when the body writes to that name.
C18_PatternParamsIgnored ==
  /\ DOMAIN stores[1].functionScopes = StillOpen(Prog)
  /\ \A k \in StillOpen(Prog) :
       DOMAIN stores[1].functionScopes[k].params
         = IdentifierNames(Prog[k].node.params)
  /\ ruleType = "param" =>
       \A r \in 1..Len(Out) :
         LET params == Prog[Out[r].node.owner].node.params
         IN /\ Out[r].node.index + 1 \notin PatternPlaces(params)
            /\ \A i \in PatternPlaces(params) :
                 BoundIn(params[i]) \notin IdentifierNames(params)
                   => Out[r].message.name # BoundIn(params[i])

\* C18 witness: under the parameter rule a function whose only parameter is
\* a pattern or a rest element binding a has been left, its body wrote to
\* a, and nothing was reported
C18_Witness ==
  /\ ruleType = "param"
  /\ Out = <<>>
  /\ \E k \in Functions(Prog) :
       /\ Left(Prog, k)
       /\ PatternPlaces(Prog[k].node.params) = {1}
       /\ Len(Prog[k].node.params) = 1
       /\ BoundIn(Prog[k].node.params[1]) \in TargetsIn(Prog, k)

\* the zero-based positions of the mut-prefixed simple-identifier
\* parameters of the function entered at k
PrefixedPositions(events, k) ==
  {i - 1 : i \in {p \in 1..Len(events[k].node.params) :
                     /\ events[k].node.params[p].type = "Identifier"
                     /\ PrefixMarker(events[k].node.params[p].name)}}

\* the functions of the program bound to the name n
Named(events, n) == {k \in Functions(events) : BoundName(events[k].node) = n}

DottedCall(call) ==
  /\ call.callee.type = "MemberExpression"
  /\ "computed" \notin DOMAIN call.callee
  /\ call.callee.property.type = "Identifier"

\* the name the statement gives a call: the identifier of f(...), the
\* property of obj.f(...)
StatedName(call) ==
  IF call.callee.type = "Identifier" THEN call.callee.name
  ELSE call.callee.property.name

\* the calls of the program that are f(...) or obj.f(...)
StatedCalls(events) ==
  {j \in Calls(events) :
     events[j].node.callee.type = "Identifier" \/ DottedCall(events[j].node)}

\* what a direct call n(arguments) is reported at, given the program
DirectCallDue(events, n, call) ==
  IF Profiled(events, n) = {} THEN {}
  ELSE MutatedPositions(events, LastProfiled(events, n))
         \cap UnmarkedAt(call)

\* the call records in the order they were stored
CallRecords == stores[1].functionCalls

\* C20: a direct call f(...) is recorded under the identifier f and a member
\* call obj.f(...) under the property name f, with its arguments; and at the
\* end a member call obj.f(b) is reported at exactly the positions at which
\* the direct call f(b) would be, whatever obj is.
C20_MemberCallByPropertyName ==
  /\ ruleType = "var" =>
       /\ \A j \in StatedCalls(Prog) :
            \E r \in 1..Len(CallRecords) :
              /\ CallRecords[r].node = j
              /\ CallRecords[r].functionName = StatedName(Prog[j].node)
              /\ CallRecords[r].arguments = Prog[j].node.arguments
       /\ \A r \in 1..Len(CallRecords) :
            CallRecords[r].node \in StatedCalls(Prog) =>
              CallRecords[r].functionName
                = StatedName(Prog[CallRecords[r].node].node)
  /\ VarEnded =>
       \A j \in StatedCalls(Prog) :
         ReportedAt(Out, j)
           = DirectCallDue(Prog, StatedName(Prog[j].node), Prog[j].node)

\* C20 witness: f mutates its parameter; the direct call f(a) and the
\* member call this.f(a) are both reported at position 0
C20_Witness ==
  /\ VarEnded
  /\ \E j, m \in Calls(Prog) :
       /\ Prog[j].node = Call(Ident(nF), <<Ident(nA)>>)
       /\ Prog[m].node = Call(Member(ThisExpression, Ident(nF)), <<Ident(nA)>>)
       /\ ReportedAt(Out, j) = {0}
       /\ ReportedAt(Out, m) = {0}

\* the function-like nodes entered and not yet left
Entered == {stack[i].uid : i \in 1..Len(stack)}

\* C21: at every point of the traversal the keys of functionScopes are
\* exactly the function nodes entered and not yet left, so every function
\* enclosing a visited node has a scope there; once the last function has
\* been left the registry is empty.
C21_RegistryHoldsOpenFunctions ==
  /\ DOMAIN functionScopes = Entered
  /\ stack = <<>> => functionScopes = EmptyMap

\* C21 witness: a node has been visited inside two nested functions, both
\* of them in the registry
C21_Witness ==
  /\ Len(stack) >= 2
  /\ nodeCount >= 1
  /\ Cardinality(DOMAIN functionScopes) = Len(stack)
  /\ \A i \in 1..Len(stack) : stack[i].uid \in DOMAIN functionScopes

\* the event the last step handed to the first invocation
Handled == programs'[1][Len(programs'[1])]

\* a write whose member chain starts at something else than an identifier
UnnamedBaseWrite(node) ==
  /\ node.type \in {"AssignmentExpression", "UpdateExpression"}
  /\ WriteTarget(node).type = "MemberExpression"
  /\ LeftMostBase(WriteTarget(node)).type # "Identifier"

\* C22: a visit of an assignment or an update whose member chain starts at
\* this, a call result, a literal or a compound expression, and every visit
\* of an assignment, update or call outside any function, leaves the mutated
\* set of every scope as it was, reports nothing and reads no property of an
\* absent node.
C22_UnresolvedRootIgnored ==
  [][(/\ Len(programs'[1]) = Len(Prog) + 1
      /\ Handled.kind = "visit"
      /\ \/ UnnamedBaseWrite(Handled.node)
         \/ OpenFunctions(Prog) = <<>>)
     => /\ stores'[1].functionScopes = stores[1].functionScopes
        /\ output' = output
        /\ ~dereferencesAbsent(Handled.node)]_vars

\* function f(a) has seen a.p = v and then a write on each of the four
\* bases, and a write was visited before the function was entered
C22_Witness ==
  /\ Len(Prog) = MaxEvents
  /\ Prog[1].kind = "visit" /\ Prog[1].node = Assignment(Chain(Ident(nA), 1))
  /\ Prog[2].kind = "enter"
  /\ Prog[3].kind = "visit" /\ Prog[3].node = Assignment(Chain(Ident(nA), 1))
  /\ \A j \in 4..MaxEvents :
       Prog[j].kind = "visit" /\ UnnamedBaseWrite(Prog[j].node)
  /\ Cardinality({Prog[j].node : j \in 4..MaxEvents}) = MaxEvents - 3
  /\ stores[1].functionScopes[2].mutatedParams = <<nA>>
  /\ Out = <<>>
\* the place of the first visit in the body of the function entered at k,
\* nested bodies included, that targets the name x
FirstTargeting(events, k, x) ==
  CHOOSE j \in 1..Len(events) :
    /\ events[j].kind = "visit" /\ InBody(events, k, j)
    /\ Targets(events[j].node, x)
    /\ \A m \in 1..(j - 1) :
         ~(/\ events[m].kind = "visit" /\ InBody(events, k, m)
           /\ Targets(events[m].node, x))

\* the zero-based positions of the parameters of the function entered at k
\* that its body targets and that lack the prefix marker
UnmarkedMutated(events, k) ==
  MutatedPositions(events, k) \ PrefixedPositions(events, k)

\* C23: under the parameter rule, in every state of the traversal, a
\* function that is still open has no report, however many mutation sites
\* were visited, and a function that has been left has exactly the reports
\* of its unmarked mutated parameters, complete as soon as its exit event
\* is handled and unchanged afterwards; the reports stand in the order of
\* the exit events, so those of a nested function precede those of its
\* enclosing function, and within one function in the order in which its
\* parameters were first written to.
C23_ReportsAtExitInOrder ==
  (ruleType = "param" /\ isTypeScript = FALSE) =>
    /\ \A r \in 1..Len(Out) :
         /\ Out[r].node.owner \in Functions(Prog)
         /\ Left(Prog, Out[r].node.owner)
    /\ \A k \in Functions(Prog) :
         Left(Prog, k) =>
           /\ ReportedAt(Out, k) = UnmarkedMutated(Prog, k)
           /\ \A i \in UnmarkedMutated(Prog, k) :
                Cardinality(ReportsAtPlace(Out, k, i)) = 1
    /\ \A r, q \in 1..Len(Out) :
         r < q =>
           IF Out[r].node.owner = Out[q].node.owner
           THEN FirstTargeting(Prog, Out[r].node.owner, Out[r].message.name)
                  < FirstTargeting(Prog, Out[q].node.owner,
                                   Out[q].message.name)
           ELSE ExitPlace(Prog, Out[r].node.owner)
                  < ExitPlace(Prog, Out[q].node.owner)

\* C23 witness: f(v) nested in f(a, v); the inner body writes to v and then
\* to a; the inner function's report on v comes first, then the outer
\* function's reports on its second and its first parameter
C23_Witness ==
  /\ ruleType = "param"
  /\ Len(Prog) = MaxEvents
  /\ Prog[1].kind = "enter" /\ Len(Prog[1].node.params) = 2
  /\ Prog[2].kind = "enter" /\ Len(Prog[2].node.params) = 1
  /\ Prog[3].kind = "visit" /\ Prog[3].node = Assignment(Chain(Ident(nV), 1))
  /\ Prog[4].kind = "visit" /\ Prog[4].node = Assignment(Chain(Ident(nA), 1))
  /\ Prog[5].kind = "exit" /\ Prog[MaxEvents].kind = "exit"
  /\ Places(Out) = <<<<2, 0>>, <<1, 1>>, <<1, 0>>>>
\* C24: under the variable rule the profile table has an entry exactly for
\* the names under which some nameable function that targets a parameter
\* was left, and the entry holds the positions of the one left last among
\* them; leaving a function that targets none of its parameters leaves the
\* table as it was; and at the end every direct call through such a name,
\* wherever it was met, is checked against that surviving entry.
C24_CollidingNames ==
  /\ [](ruleType = "var" =>
         /\ DOMAIN functionsWithMutatingParams = DOMAIN declared
         /\ \A n \in DOMAIN declared : ProfileUnder(n, declared[n].last)
         /\ done =>
              \A n \in DOMAIN declared :
                \A k \in DirectCalls(n) :
                  CallChecked(callsMet[k], n, declared[n].last))
  /\ [][(/\ ruleType = "var"
          /\ Len(stack') < Len(stack)
          /\ lastExit'.positions = {})
         => functionsWithMutatingParams' = functionsWithMutatingParams]_vars

\* C24 witness: a function f that targets its first parameter and a second
\* function f, left later, that targets none; the entry for f still holds
\* position 0 and the call f(a) is reported at the end
C24_Witness ==
  /\ VarDone
  /\ lastExit.uid = MaxFunctions
  /\ BoundName(lastExit) = nF
  /\ lastExit.positions = {}
  /\ nF \in DOMAIN declared
  /\ functionsWithMutatingParams[nF] = <<0>>
  /\ \E k \in DirectCalls(nF) :
       /\ callsMet[k].arguments = <<Ident(nA)>>
       /\ Cardinality(ArgReportsOn(callsMet[k], 0)) = 1
\* the function node the last step left, and its scope before the step
Exited == OpenFunctions(Prog)[Len(OpenFunctions(Prog))]
ExitedScope == stores[1].functionScopes[Exited.uid]

\* C25: in every state the mutated set of each open scope holds only names
\* of that scope's parameter record and no profile is empty; and when a
\* function is left, every mutated name is found in the parameter record,
\* and under the variable rule a nameable function with a non-empty mutated
\* set gets a profile with at least one position.
C25_MutatedWithinParams ==
  /\ [](/\ \A k \in DOMAIN stores[1].functionScopes :
            \A i \in 1..Len(stores[1].functionScopes[k].mutatedParams) :
              stores[1].functionScopes[k].mutatedParams[i]
                \in DOMAIN stores[1].functionScopes[k].params
        /\ \A n \in DOMAIN stores[1].functionsWithMutatingParams :
            Len(stores[1].functionsWithMutatingParams[n]) >= 1)
  /\ [][(Len(programs'[1]) = Len(Prog) + 1 /\ Handled.kind = "exit")
         => /\ Exited.uid \in DOMAIN stores[1].functionScopes
            /\ \A i \in 1..Len(ExitedScope.mutatedParams) :
                 ExitedScope.mutatedParams[i] \in DOMAIN ExitedScope.params
            /\ (/\ ruleType = "var"
                /\ Len(ExitedScope.mutatedParams) > 0
                /\ profileName(Exited) # Null)
                 => /\ profileName(Exited)
                         \in DOMAIN stores'[1].functionsWithMutatingParams
                    /\ Len(stores'[1].functionsWithMutatingParams[
                             profileName(Exited)]) >= 1]_vars

\* C25 witness: function f({a}, mutA) whose body writes to a and to mutA
\* was left under the variable rule; the profile of f holds position 1 alone
C25_Witness ==
  /\ ruleType = "var"
  /\ Len(Prog) >= 4
  /\ Prog[1].kind = "enter"
  /\ Prog[1].node.params = <<ObjectPatternOf(nA), PlainParam(nMutA)>>
  /\ TargetsIn(Prog, 1) = {nA, nMutA}
  /\ Left(Prog, 1)
  /\ stores[1].functionsWithMutatingParams = MapSet(EmptyMap, nF, <<1>>)
\* the other rule variant, and what it makes of the same events
OtherRule == IF ruleType = "param" THEN "var" ELSE "param"
UnderOtherRule == Analyse(OtherRule, isTypeScript, Prog).store

\* the mutated set of every open function
MutatedSets(store) ==
  [k \in DOMAIN store.functionScopes |->
     store.functionScopes[k].mutatedParams]

\* C26: the parameter rule stores no call, no profile and no typed-mutable
\* variable, and each of its reports points at a parameter of a function
\* and carries a parameter message; the variable rule's reports all point
\* at an argument of a call and carry an argument message; and for the same
\* events both rules hold the same mutated set for every open function.
C26_VariantsDisjoint ==
  /\ ruleType = "param" =>
       /\ stores[1].functionCalls = <<>>
       /\ stores[1].functionsWithMutatingParams = EmptyMap
       /\ stores[1].mutTypeVariables = {}
       /\ \A r \in 1..Len(Out) :
            /\ Out[r].message.template \in {"param-js", "param-ts"}
            /\ Out[r].node.owner \in Functions(Prog)
  /\ ruleType = "var" =>
       \A r \in 1..Len(Out) :
         /\ Out[r].message.template \in {"arg-js", "arg-ts"}
         /\ Out[r].node.owner \in Calls(Prog)
  /\ MutatedSets(stores[1]) = MutatedSets(UnderOtherRule)

\* C26 witness: the parameter rule has reported the parameter of f after
\* the call f(a) and Program:exit, and for these events the variable rule
\* holds a call and a profile
C26_Witness ==
  /\ ruleType = "param"
  /\ Ended(Prog)
  /\ Calls(Prog) # {}
  /\ Len(Out) = 1
  /\ UnderOtherRule.functionCalls # <<>>
  /\ nF \in DOMAIN UnderOtherRule.functionsWithMutatingParams
  /\ Len(reportsAtProgramExit(OtherRule, isTypeScript, UnderOtherRule)) = 1
\* the names in an insertion-ordered Set
Members(s) == {s[i] : i \in 1..Len(s)}

\* the declarator events that declare the name x without a type
LocalsNamed(events, x) ==
  {j \in 1..Len(events) :
     /\ events[j].kind = "declarator"
     /\ events[j].node.id = PlainParam(x)}

\* C27: whatever local declarations the program holds, the mutated set of
\* an open function is the set of its simple-identifier parameter names
\* that are the root text of some write in its body, nested bodies
\* included: a write to a local variable that shadows a parameter of an
\* enclosing function is recorded for that function, and a write to a name
\* that no enclosing function has as a parameter is recorded nowhere and
\* never reported.
C27_AttributionByText ==
  /\ \A k \in StillOpen(Prog) :
       Members(stores[1].functionScopes[k].mutatedParams)
         = IdentifierNames(Prog[k].node.params) \cap TargetsIn(Prog, k)
  /\ \A r \in 1..Len(Out) :
       /\ Out[r].node.owner \in Functions(Prog)
       /\ Out[r].message.name
            \in IdentifierNames(Prog[Out[r].node.owner].node.params)
                 \cap TargetsIn(Prog, Out[r].node.owner)

\* C27 witness: f(v) inside f(a, v) declares a local a and writes to it;
\* the write is recorded for the outer function's parameter a and not for
\* the inner function, which has no parameter of that name
C27_Witness ==
  /\ Len(Prog) = 4
  /\ Prog[1].kind = "enter" /\ Len(Prog[1].node.params) = 2
  /\ Prog[2].kind = "enter" /\ Len(Prog[2].node.params) = 1
  /\ LocalsNamed(Prog, nA) = {3}
  /\ Prog[4].kind = "visit" /\ Prog[4].node = Assignment(Chain(Ident(nA), 1))
  /\ stores[1].functionScopes[1].mutatedParams = <<nA>>
  /\ stores[1].functionScopes[2].mutatedParams = <<>>
\* the function entered at k writes to none of its parameters
WritesNoParam(events, k) ==
  IdentifierNames(events[k].node.params) \cap TargetsIn(events, k) = {}

\* the calls in the body of the function entered at k that pass one of its
\* parameters on to a function that has a profile
PassedOn(events, k) ==
  {j \in Calls(events) :
     /\ InBody(events, k, j)
     /\ CalledName(events[j].node)
          \in DOMAIN stores[1].functionsWithMutatingParams
     /\ \E i \in 1..Len(events[j].node.arguments) :
          /\ events[j].node.arguments[i].type = "Identifier"
          /\ events[j].node.arguments[i].name
               \in IdentifierNames(events[k].node.params)}

MutParams(events, k) ==
  {events[k].node.params[i].name :
     i \in {j \in 1..Len(events[k].node.params) :
              /\ events[k].node.params[j].type = "Identifier"
              /\ MutAnnotated(events[k].node.params[j])}}

\* the calls in the body of the function entered at k that pass, at
\* position i, a parameter of k annotated Mut<T>
Forwarded(events, k, i) ==
  {j \in Calls(events) :
     /\ InBody(events, k, j)
     /\ i \in CheckedPositions(events, j)
     /\ events[j].node.arguments[i + 1].name \in MutParams(events, k)}

\* C29: in a typed source under the variable rule the set of typed-mutable
\* names holds the names declared by a declarator annotated Mut<...> and
\* nothing else, whatever parameters are annotated so; at the end a
\* parameter annotated Mut<...> that its function passes on at a mutated
\* position has one report, unless its name has the mut prefix or a
\* declarator somewhere in the program declares that name with Mut<...>.
C29_MutParamNotTypedMutable ==
  (ruleType = "var" /\ isTypeScript) =>
    /\ stores[1].mutTypeVariables = DeclaredMut(Prog)
    /\ \A k \in Functions(Prog) :
         \A x \in MutParams(Prog, k) \ DeclaredMut(Prog) :
           x \notin stores[1].mutTypeVariables
    /\ Ended(Prog) =>
         \A k \in Functions(Prog) :
           \A i \in 0..(MaxArgs - 1) :
             \A j \in Forwarded(Prog, k, i) :
               Cardinality(ReportsAtPlace(Out, j, i)) =
                 (IF \/ PrefixMarker(Prog[j].node.arguments[i + 1].name)
                     \/ Prog[j].node.arguments[i + 1].name
                          \in DeclaredMut(Prog)
                  THEN 0 ELSE 1)

\* C29 witness: function f(a: Mut<T>) writes to a and passes it on in f(a);
\* no declarator declares a, the typed-mutable set is empty and the
\* argument is reported
C29_Witness ==
  /\ VarEnded /\ isTypeScript
  /\ DeclaredMut(Prog) = {}
  /\ stores[1].mutTypeVariables = {}
  /\ \E k \in Functions(Prog) :
       /\ MutParams(Prog, k) = {nA}
       /\ \E j \in Forwarded(Prog, k, 0) :
            Cardinality(ReportsAtPlace(Out, j, 0)) = 1
\* C30: for every identifier name that fails the prefix test, the rename
\* suggested in the parameter rule's message passes it.
C30_Original ==
  (recorded # <<>> /\ ~hasMutPrefix(text))
    => hasMutPrefix(recorded[1].suggestion)
====
